---- MODULE Spec2Model ----
(***************************************************************************)
(* DocOrchestrator (src/orchestrator.py): the staged session state machine. *)
(*                                                                         *)
(* The durable state is the set of session_state.json records, the single  *)
(* pending_reviews.json index file and the topic files moved into each     *)
(* session's topics directory.  Every staged entry point of the CLI        *)
(* (--generate-ideas, --review, --generate-docs, --generate-all-pending)   *)
(* is one action: the processes run one at a time and each runs to its     *)
(* return.  The wall clock is kept to the second, the granularity of the   *)
(* session id (strftime "%Y%m%d_%H%M%S"); it advances by Tick.             *)
(***************************************************************************)
EXTENDS Integers, Sequences, FiniteSets, TLC

VARIABLES clock, sessions, indexFile, topicsDir, result

vars == <<clock, sessions, indexFile, topicsDir, result>>

(* ------------------------------ bounds -------------------------------- *)

\* seconds of wall clock the model runs through; a session id is a second
MaxClock == 2

\* topic files one idea-generator run can leave behind
MaxTopics == 2

\* entries one list of the pending index may hold
MaxIndexLen == 2

\* selected topics one call of _run_stage2 is given, when run on its own
MaxBatch == 3

(* ------------------------------ values -------------------------------- *)

SessionIds == 1..MaxClock

None == [some |-> FALSE]

Some(v) == [some |-> TRUE, val |-> v]

\* the YAML files a run can be started with: a.yaml leaves the orchestration
\* defaults (retry_on_failure true), b.yaml turns failure tolerance off
ConfigPaths == {"a.yaml", "b.yaml"}

DefaultConfigPaths == {"a.yaml"}

\* what the document generator does for one topic
Outcomes == {"ok", "nonzero", "timeout"}

\* what the idea generator does
Stage1Exits == {"ok", "nonzero", "timeout"}

\* Ctrl-C while the external program runs: subprocess.run lets the
\* KeyboardInterrupt through, and no handler on the staged path catches it
Interrupt == "interrupt"

\* the file name pattern the idea generator saves topics under (topic_*.md)
Patterns == {"topic"}

FileName(kind, n) == [kind |-> kind, n |-> n]

\* sessions/<id>/topics/<name>, as the string json.dump(default=str) stores
TopicPathStr(sid, name) == <<"sessions", sid, "topics", name>>

\* pathlib.Path(s) and str(p)
PathOf(s) == [parts |-> s]

StrOf(p) == p.parts


\* the title _parse_topic_files derives for a topic file (from its content,
\* or from the manifest entry of that file name): one title per file
TitleOf(name) == <<"title", name.kind, name.n>>

RECURSIVE SortedSeq(_)
\* sorted(...) of a set of integers
SortedSeq(S) ==
    IF S = {} THEN <<>>
    ELSE LET m == CHOOSE x \in S : \A y \in S : x <= y
         IN  <<m>> \o SortedSeq(S \ {m})

\* every way of ticking a subset of n choices, in the order they were ticked
Selections(n) ==
    {s \in UNION {[1..k -> 1..n] : k \in 0..n} :
        \A i, j \in DOMAIN s : i # j => s[i] # s[j]}

(* --------------------------- configuration ---------------------------- *)

\* _load_config: the settings object read from a YAML file
LoadConfig(path) ==
    IF path = "a.yaml"
    THEN [name |-> "Pipeline A", retry_on_failure |-> TRUE, stage2_timeout |-> 300]
    ELSE [name |-> "Pipeline B", retry_on_failure |-> FALSE, stage2_timeout |-> 60]

\* DocOrchestrator(config_path): a new run; the session id is the second of
\* its construction
NewOrchestrator(path, now) ==
    [session_id |-> now, config |-> LoadConfig(path), config_path |-> Some(path)]

\* DocOrchestrator.from_session: the config is rebuilt from the stored
\* snapshot and no config_path attribute is set
FromSession(sess, sid) ==
    [session_id |-> sid, config |-> sess[sid].config_snapshot, config_path |-> None]

(* ---------------------------- session store --------------------------- *)

\* mutant: a record that is already at a later stage is left as it is
SaveSessionState_KeepsLaterStage(sess, self, stage, topics, selected_topics, documents, now) ==
    LET sid == self.session_id
        later == /\ sid \in DOMAIN sess
                 /\ \/ sess[sid].stage = "completed" /\ stage # "completed"
                    \/ sess[sid].stage = "reviewed" /\ stage = "ideas_generated"
        state == [session_id |-> sid,
                  config_file |-> self.config_path,
                  config_snapshot |-> self.config,
                  stage |-> stage,
                  created_at |-> IF sid \in DOMAIN sess
                                 THEN sess[sid].created_at ELSE now,
                  updated_at |-> now,
                  topics |-> topics,
                  selected_topics |-> selected_topics,
                  generated_documents |-> documents]
    IN  IF later THEN sess
        ELSE [s \in DOMAIN sess \cup {sid} |-> IF s = sid THEN state ELSE sess[s]]

\* mutant: created_at is the time of the save
SaveSessionState_ResetsCreatedAt(sess, self, stage, topics, selected_topics, documents, now) ==
    LET sid == self.session_id
        state == [session_id |-> sid,
                  config_file |-> self.config_path,
                  config_snapshot |-> self.config,
                  stage |-> stage,
                  created_at |-> now,
                  updated_at |-> now,
                  topics |-> topics,
                  selected_topics |-> selected_topics,
                  generated_documents |-> documents]
    IN  (sid :> state) @@ sess

\* mutant: a rewrite stores the configuration of the default YAML file, not
\* the one the process holds
SaveSessionState_LiveConfig(sess, self, stage, topics, selected_topics, documents, now) ==
    LET sid == self.session_id
        state == [session_id |-> sid,
                  config_file |-> self.config_path,
                  config_snapshot |-> IF sid \in DOMAIN sess
                                      THEN LoadConfig("a.yaml") ELSE self.config,
                  stage |-> stage,
                  created_at |-> IF sid \in DOMAIN sess
                                 THEN sess[sid].created_at ELSE now,
                  updated_at |-> now,
                  topics |-> topics,
                  selected_topics |-> selected_topics,
                  generated_documents |-> documents]
    IN  (sid :> state) @@ sess

\* _save_session_state: the whole record is rewritten; created_at is read
\* back from the record on disk when there is one
SaveSessionState(sess, self, stage, topics, selected_topics, documents, now) ==
    LET sid == self.session_id
        state == [session_id |-> sid,
                  config_file |-> self.config_path,
                  config_snapshot |-> self.config,
                  stage |-> stage,
                  created_at |-> IF sid \in DOMAIN sess
                                 THEN sess[sid].created_at ELSE now,
                  updated_at |-> now,
                  topics |-> topics,
                  selected_topics |-> selected_topics,
                  generated_documents |-> documents]
    IN  (sid :> state) @@ sess

\* _load_session_state: the JSON record of the session's state file
LoadSessionState(sess, session_id) == sess[session_id]

(* ---------------------------- pending index --------------------------- *)

NoIndexFile == [exists |-> FALSE]

EmptyIndex ==
    [exists |-> TRUE, pending_reviews |-> <<>>, reviewed_awaiting_generation |-> <<>>]

\* mutant: the new entry is appended to the wrong list
AddToPendingReviews_WrongList(idx, self, dirFiles, now) ==
    LET index == IF idx.exists THEN idx ELSE
                 [exists |-> TRUE, pending_reviews |-> <<>>,
                  reviewed_awaiting_generation |-> <<>>]
    IN  [index EXCEPT !.reviewed_awaiting_generation =
            Append(@, [session_id |-> self.session_id, reviewed_at |-> now,
                       selected_count |-> 0])]

\* _add_to_pending_reviews: a missing file is two empty lists; the entry is
\* appended; topic_count counts the topic_*.md files of the topics directory
AddToPendingReviews(idx, self, dirFiles, now) ==
    LET index == IF idx.exists THEN idx ELSE EmptyIndex
        entry == [session_id |-> self.session_id,
                  created_at |-> now,
                  topic_count |-> Cardinality({f \in dirFiles : f.kind = "topic"}),
                  config_name |-> self.config.name]
    IN  [index EXCEPT !.pending_reviews = Append(@, entry)]

\* mutant: the entry of pending_reviews is left in place
MoveToAwaitingGeneration_KeepsPending(idx, session_id, selected_count, now) ==
    IF ~idx.exists THEN idx
    ELSE [idx EXCEPT
            !.reviewed_awaiting_generation =
                Append(@, [session_id |-> session_id,
                           reviewed_at |-> now,
                           selected_count |-> selected_count])]

\* _move_to_awaiting_generation: nothing is done when the file is missing
MoveToAwaitingGeneration(idx, session_id, selected_count, now) ==
    IF ~idx.exists THEN idx
    ELSE [idx EXCEPT
            !.pending_reviews =
                SelectSeq(@, LAMBDA s : s.session_id # session_id),
            !.reviewed_awaiting_generation =
                Append(@, [session_id |-> session_id,
                           reviewed_at |-> now,
                           selected_count |-> selected_count])]

\* mutant: the index is left as it is
RemoveFromAwaitingGeneration_Noop(idx, session_id) == idx

\* mutant: only the first entry of the session is taken out
RemoveFromAwaitingGeneration_FirstOnly(idx, session_id) ==
    IF ~idx.exists THEN idx
    ELSE LET l == idx.reviewed_awaiting_generation
             hits == {i \in DOMAIN l : l[i].session_id = session_id}
             first == CHOOSE i \in hits : \A j \in hits : i <= j
         IN  IF hits = {} THEN idx
             ELSE [idx EXCEPT !.reviewed_awaiting_generation =
                       SubSeq(l, 1, first - 1) \o SubSeq(l, first + 1, Len(l))]

\* _remove_from_awaiting_generation
RemoveFromAwaitingGeneration(idx, session_id) ==
    IF ~idx.exists THEN idx
    ELSE [idx EXCEPT
            !.reviewed_awaiting_generation =
                SelectSeq(@, LAMBDA s : s.session_id # session_id)]

(* ------------------------------ stage 1 -------------------------------- *)

\* _discover_topic_files / _load_topics_from_manifest: the files the idea
\* generator wrote, moved into the session's topics directory, sorted
MovedTopicFiles(self, kind, written) ==
    LET ns == SortedSeq(written)
    IN  [i \in 1..Len(ns) |->
            PathOf(TopicPathStr(self.session_id, FileName(kind, ns[i])))]

\* mutant: the exit code of the idea generator is not looked at
RunStage1_IgnoresExit(self, exit, kind, written) ==
    IF exit = Interrupt
    THEN [raised |-> FALSE, interrupted |-> TRUE, topic_files |-> <<>>]
    ELSE IF exit = "timeout"
    THEN [raised |-> TRUE, interrupted |-> FALSE, topic_files |-> <<>>]
    ELSE [raised |-> FALSE, interrupted |-> FALSE,
          topic_files |-> MovedTopicFiles(self, kind, written)]

\* mutant: an interrupt is taken for a normal end of the idea generator
RunStage1_SwallowsInterrupt(self, exit, kind, written) ==
    IF exit = "timeout"
    THEN [raised |-> TRUE, interrupted |-> FALSE, topic_files |-> <<>>]
    ELSE IF exit = "nonzero"
    THEN [raised |-> FALSE, interrupted |-> FALSE, topic_files |-> <<>>]
    ELSE [raised |-> FALSE, interrupted |-> FALSE,
          topic_files |-> MovedTopicFiles(self, kind, written)]

\* _run_stage1: a non-zero exit gives no topic file; exit 0 gives the moved
\* files; a timeout raises (raised |-> TRUE); an interrupt leaves the method
\* through its finally clause only (interrupted |-> TRUE)
RunStage1(self, exit, kind, written) ==
    IF exit = Interrupt
    THEN [raised |-> FALSE, interrupted |-> TRUE, topic_files |-> <<>>]
    ELSE IF exit = "timeout"
    THEN [raised |-> TRUE, interrupted |-> FALSE, topic_files |-> <<>>]
    ELSE IF exit = "nonzero"
    THEN [raised |-> FALSE, interrupted |-> FALSE, topic_files |-> <<>>]
    ELSE [raised |-> FALSE, interrupted |-> FALSE,
          topic_files |-> MovedTopicFiles(self, kind, written)]

\* _parse_topic_files: one topic per file, in the order of the files
ParseTopicFiles(topic_files) ==
    [i \in 1..Len(topic_files) |->
        [file_path |-> topic_files[i],
         title |-> TitleOf(topic_files[i].parts[4])]]

\* json.dump(state, default=str): a Path is stored as its string
TopicsToJson(topics) ==
    [i \in 1..Len(topics) |->
        [file_path |-> StrOf(topics[i].file_path), title |-> topics[i].title]]

(* ------------------------------ review --------------------------------- *)

\* _interactive_review: --yes selects every topic, otherwise the reviewer
\* ticks choices (sel: the indices ticked)
InteractiveReview(topics, auto_confirm, sel) ==
    IF topics = <<>> THEN <<>>
    ELSE IF auto_confirm THEN topics
    ELSE [k \in 1..Len(sel) |-> topics[sel[k]]]

(* ------------------------------ stage 3 -------------------------------- *)

\* mutant: a non-zero exit is recorded as a success
DocFailed_MarkedSuccess(topic) ==
    [topic |-> topic.title, status |-> "success", output |-> "stdout"]

\* mutant: a timeout is recorded with the error of a non-zero exit
DocTimeout_AsStderr(topic, cfg) ==
    [topic |-> topic.title, status |-> "failed", error |-> <<"stderr">>]

\* one Document Result of _run_stage2
DocSuccess(topic) == [topic |-> topic.title, status |-> "success", output |-> "stdout"]

DocFailed(topic) == [topic |-> topic.title, status |-> "failed", error |-> <<"stderr">>]

DocTimeout(topic, cfg) ==
    [topic |-> topic.title, status |-> "failed",
     error |-> <<"Timeout after", cfg.stage2_timeout, "seconds">>]

RECURSIVE Stage2Loop(_, _, _, _, _)
\* the loop of _run_stage2 from the i-th selected topic on
Stage2Loop(cfg, selected, outs, i, documents) ==
    IF i > Len(selected)
    THEN [raised |-> FALSE, interrupted |-> FALSE,
          documents |-> documents, calls |-> Len(selected)]
    ELSE IF outs[i] = Interrupt
    THEN [raised |-> FALSE, interrupted |-> TRUE,
          documents |-> documents, calls |-> i]
    ELSE IF outs[i] = "ok"
    THEN Stage2Loop(cfg, selected, outs, i + 1,
                    Append(documents, DocSuccess(selected[i])))
    ELSE IF outs[i] = "timeout"
    THEN Stage2Loop(cfg, selected, outs, i + 1,
                    Append(documents, DocTimeout(selected[i], cfg)))
    ELSE IF ~cfg.retry_on_failure
    THEN [raised |-> TRUE, interrupted |-> FALSE,
          documents |-> documents, calls |-> i]
    ELSE Stage2Loop(cfg, selected, outs, i + 1,
                    Append(documents, DocFailed(selected[i])))

\* mutant: retry_on_failure is not read, a non-zero exit never raises
RunStage2_AlwaysTolerant(cfg, selected, outs) ==
    Stage2Loop([cfg EXCEPT !.retry_on_failure = TRUE], selected, outs, 1, <<>>)

\* _run_stage2: one invocation per selected topic, in order
RunStage2(cfg, selected, outs) == Stage2Loop(cfg, selected, outs, 1, <<>>)

(* ------------------------- staged entry points ------------------------- *)

\* what an entry point leaves on disk, returns and was seen to do:
\*   ret      the exit code
\*   calls    document-generator invocations made
\*   exit, raised, stage1   the idea generator's exit, whether _run_stage1
\*            raised, and the topic files it returned
\*   shown, selected        whether a selection was presented, and its answer
\*   outs     what the document generator did at each invocation
\*   interrupted            the process was ended by a KeyboardInterrupt
\*   mkdirs   the sessions whose directory a constructor made or found
\*            (session_dir.mkdir and topics_dir.mkdir in __init__)
Outcome(sess, idx, dir, ret) ==
    [sessions |-> sess, indexFile |-> idx, topicsDir |-> dir, ret |-> ret,
     mkdirs |-> {},
     calls |-> 0, exit |-> "", raised |-> FALSE, stage1 |-> <<>>,
     shown |-> FALSE, selected |-> <<>>, outs |-> <<>>, interrupted |-> FALSE]

\* an unhandled KeyboardInterrupt ends the process (exit status 130) with the
\* disk as it is
Interrupted(sess, idx, dir) ==
    [interrupted |-> TRUE] @@ Outcome(sess, idx, dir, 130)

\* run_generate_ideas, in a new DocOrchestrator(config_path)
RunGenerateIdeasOp(sess, idx, dir, path, exit, kind, written, now) ==
    LET self == NewOrchestrator(path, now)
        st1 == RunStage1(self, exit, kind, written)
        moved == {st1.topic_files[i].parts[4] : i \in 1..Len(st1.topic_files)}
        dir2 == [dir EXCEPT ![self.session_id] = @ \cup moved]
        seen == [exit |-> exit, raised |-> st1.raised, stage1 |-> st1.topic_files,
                 mkdirs |-> {self.session_id}]
    IN  IF st1.interrupted
        THEN seen @@ Interrupted(sess, idx, dir)
        ELSE IF st1.raised \/ st1.topic_files = <<>>
        THEN seen @@ Outcome(sess, idx, dir, 1)
        ELSE LET topics == ParseTopicFiles(st1.topic_files)
             IN  seen @@
                 Outcome(SaveSessionState(sess, self, "ideas_generated",
                                          TopicsToJson(topics), None, <<>>, now),
                         AddToPendingReviews(idx, self, dir2[self.session_id], now),
                         dir2, 0)

\* mutant: the stage of the loaded record is not checked
RunReviewSessionOp_NoStageCheck(orch, sess, idx, dir, session_id, auto_confirm, sel, now) ==
    LET state == sess[session_id]
        self == [orch EXCEPT !.config = state.config_snapshot,
                             !.session_id = session_id]
        topics == [i \in 1..Len(state.topics) |->
                     [file_path |-> PathOf(state.topics[i].file_path),
                      title |-> state.topics[i].title]]
        selected_topics == InteractiveReview(topics, auto_confirm, sel)
        seen == [shown |-> TRUE, selected |-> selected_topics]
    IN  IF selected_topics = <<>>
        THEN seen @@ Outcome(sess, idx, dir, 0)
        ELSE seen @@
             Outcome(SaveSessionState(sess, self, "reviewed", state.topics,
                                      Some(TopicsToJson(selected_topics)), <<>>, now),
                     MoveToAwaitingGeneration(idx, session_id,
                                              Len(selected_topics), now),
                     dir, 0)

\* mutant: an empty selection is saved like any other
RunReviewSessionOp_SavesEmptySelection(orch, sess, idx, dir, session_id, auto_confirm, sel, now) ==
    LET state == sess[session_id]
    IN  IF state.stage # "ideas_generated"
        THEN Outcome(sess, idx, dir, 0)
        ELSE
        LET self == [orch EXCEPT !.config = state.config_snapshot,
                                 !.session_id = session_id]
            topics == [i \in 1..Len(state.topics) |->
                         [file_path |-> PathOf(state.topics[i].file_path),
                          title |-> state.topics[i].title]]
            selected_topics == InteractiveReview(topics, auto_confirm, sel)
        IN  [shown |-> TRUE, selected |-> selected_topics] @@
            Outcome(SaveSessionState(sess, self, "reviewed", state.topics,
                                     Some(TopicsToJson(selected_topics)), <<>>, now),
                    MoveToAwaitingGeneration(idx, session_id,
                                             Len(selected_topics), now),
                    dir, 0)

\* run_review_session on a loaded record
RunReviewSessionOp(orch, sess, idx, dir, session_id, auto_confirm, sel, now) ==
    LET state == sess[session_id]
    IN  IF state.stage # "ideas_generated"
        THEN Outcome(sess, idx, dir, 0)
        ELSE
        LET self == [orch EXCEPT !.config = state.config_snapshot,
                                 !.session_id = session_id]
            topics == [i \in 1..Len(state.topics) |->
                         [file_path |-> PathOf(state.topics[i].file_path),
                          title |-> state.topics[i].title]]
            selected_topics == InteractiveReview(topics, auto_confirm, sel)
            seen == [shown |-> TRUE, selected |-> selected_topics]
        IN  IF selected_topics = <<>>
            THEN seen @@ Outcome(sess, idx, dir, 0)
            ELSE seen @@
                 Outcome(SaveSessionState(sess, self, "reviewed", state.topics,
                                          Some(TopicsToJson(selected_topics)), <<>>, now),
                         MoveToAwaitingGeneration(idx, session_id,
                                                  Len(selected_topics), now),
                         dir, 0)

\* mutant: only a completed session is turned away, and a selection that
\* was never made is read as empty
RunGenerateDocumentsOp_NoReviewedCheck(orch, sess, idx, dir, session_id, outs, now) ==
    LET state == sess[session_id]
    IN  IF state.stage = "completed"
        THEN Outcome(sess, idx, dir, 1)
        ELSE
        LET self == [orch EXCEPT !.config = state.config_snapshot,
                                 !.session_id = session_id]
            stored == IF state.selected_topics.some
                      THEN state.selected_topics.val ELSE <<>>
            selected_topics ==
                [i \in 1..Len(stored) |->
                    [title |-> stored[i].title,
                     file_path |-> PathOf(stored[i].file_path)]]
            st2 == RunStage2(self.config, selected_topics, outs)
        IN  IF st2.raised
            THEN [calls |-> st2.calls] @@ Outcome(sess, idx, dir, 1)
            ELSE [calls |-> st2.calls] @@
                 Outcome(SaveSessionState(sess, self, "completed", state.topics,
                                          state.selected_topics, st2.documents, now),
                         RemoveFromAwaitingGeneration(idx, session_id),
                         dir, 0)

\* mutant: a completed session is generated again
RunGenerateDocumentsOp_RerunsCompleted(orch, sess, idx, dir, session_id, outs, now) ==
    LET state == sess[session_id]
    IN  IF state.stage = "ideas_generated"
        THEN Outcome(sess, idx, dir, 1)
        ELSE
        LET self == [orch EXCEPT !.config = state.config_snapshot,
                                 !.session_id = session_id]
            selected_topics ==
                [i \in 1..Len(state.selected_topics.val) |->
                    [title |-> state.selected_topics.val[i].title,
                     file_path |-> PathOf(state.selected_topics.val[i].file_path)]]
            met == [i \in 1..Len(selected_topics) |->
                        IF i \in DOMAIN outs THEN outs[i] ELSE "ok"]
            st2 == RunStage2(self.config, selected_topics, met)
        IN  IF st2.raised
            THEN [calls |-> st2.calls] @@ Outcome(sess, idx, dir, 1)
            ELSE [calls |-> st2.calls] @@
                 Outcome(SaveSessionState(sess, self, "completed", state.topics,
                                          state.selected_topics, st2.documents, now),
                         RemoveFromAwaitingGeneration(idx, session_id),
                         dir, 0)

\* run_generate_documents on a loaded record
RunGenerateDocumentsOp(orch, sess, idx, dir, session_id, outs, now) ==
    LET state == sess[session_id]
    IN  IF state.stage # "reviewed"
        THEN Outcome(sess, idx, dir, 1)
        ELSE
        LET self == [orch EXCEPT !.config = state.config_snapshot,
                                 !.session_id = session_id]
            selected_topics ==
                [i \in 1..Len(state.selected_topics.val) |->
                    [title |-> state.selected_topics.val[i].title,
                     file_path |-> PathOf(state.selected_topics.val[i].file_path)]]
            st2 == RunStage2(self.config, selected_topics, outs)
            seen == [calls |-> st2.calls, outs |-> SubSeq(outs, 1, st2.calls)]
        IN  IF st2.interrupted
            THEN seen @@ Interrupted(sess, idx, dir)
            ELSE IF st2.raised
            THEN seen @@ Outcome(sess, idx, dir, 1)
            ELSE seen @@
                 Outcome(SaveSessionState(sess, self, "completed", state.topics,
                                          state.selected_topics, st2.documents, now),
                         RemoveFromAwaitingGeneration(idx, session_id),
                         dir, 0)

\* run(), the full sequential mode, in a new DocOrchestrator(config_path), its
\* Confirm prompts answered with yes: the three stages in one process.  It
\* calls no _save_session_state and no index mutation (_print_summary writes
\* session_summary.json); a KeyboardInterrupt is caught and returns 130, any
\* other exception is raised again and main() returns 1
RunOp(sess, idx, dir, path, exit, kind, written, auto_confirm, sel, outs, now) ==
    LET self == NewOrchestrator(path, now)
        st1 == RunStage1(self, exit, kind, written)
        moved == {st1.topic_files[i].parts[4] : i \in 1..Len(st1.topic_files)}
        dir2 == [dir EXCEPT ![self.session_id] = @ \cup moved]
        seen == [exit |-> exit, raised |-> st1.raised, stage1 |-> st1.topic_files,
                 summary |-> FALSE, mkdirs |-> {self.session_id}]
    IN  IF st1.interrupted
        THEN seen @@ Interrupted(sess, idx, dir)
        ELSE IF st1.raised \/ st1.topic_files = <<>>
        THEN seen @@ Outcome(sess, idx, dir, 1)
        ELSE
        LET selected_topics ==
                InteractiveReview(ParseTopicFiles(st1.topic_files), auto_confirm, sel)
            seen2 == [shown |-> TRUE, selected |-> selected_topics] @@ seen
        IN  IF selected_topics = <<>>
            THEN seen2 @@ Outcome(sess, idx, dir2, 0)
            ELSE
            LET st2 == RunStage2(self.config, selected_topics, outs)
                seen3 == [calls |-> st2.calls, outs |-> SubSeq(outs, 1, st2.calls)]
                         @@ seen2
            IN  IF st2.interrupted
                THEN seen3 @@ Interrupted(sess, idx, dir2)
                ELSE IF st2.raised
                THEN seen3 @@ Outcome(sess, idx, dir2, 1)
                ELSE [summary |-> TRUE] @@ seen3 @@ Outcome(sess, idx, dir2, 0)

\* mutant: the orchestrator is constructed before the record is looked for
CliReview_ConstructsFirst(sess, idx, dir, session_id, auto_confirm, sel, now) ==
    [mkdirs |-> {session_id}] @@
    (IF session_id \notin DOMAIN sess
     THEN Outcome(sess, idx, dir, 1)
     ELSE RunReviewSessionOp(FromSession(sess, session_id), sess, idx, dir,
                             session_id, auto_confirm, sel, now))

\* main(): --review / --generate-docs go through from_session, which raises
\* FileNotFoundError (exit 1) when the session has no record, before any
\* orchestrator is constructed
CliReview(sess, idx, dir, session_id, auto_confirm, sel, now) ==
    IF session_id \notin DOMAIN sess
    THEN Outcome(sess, idx, dir, 1)
    ELSE [mkdirs |-> {session_id}] @@
         RunReviewSessionOp(FromSession(sess, session_id), sess, idx, dir,
                            session_id, auto_confirm, sel, now)

CliGenerateDocs(sess, idx, dir, session_id, outs, now) ==
    IF session_id \notin DOMAIN sess
    THEN Outcome(sess, idx, dir, 1)
    ELSE [mkdirs |-> {session_id}] @@
         RunGenerateDocumentsOp(FromSession(sess, session_id), sess, idx, dir,
                                session_id, outs, now)

\* DocOrchestrator(config_path).run_review_session(id) and
\* .run_generate_documents(id): the staged methods called on an orchestrator
\* that was built from a YAML file, not from the session; a missing record is
\* the FileNotFoundError of _load_session_state, caught in the method
ReviewWithConfig(path, sess, idx, dir, session_id, auto_confirm, sel, now) ==
    [mkdirs |-> {NewOrchestrator(path, now).session_id}] @@
    (IF session_id \notin DOMAIN sess
     THEN Outcome(sess, idx, dir, 1)
     ELSE RunReviewSessionOp(NewOrchestrator(path, now), sess, idx, dir,
                             session_id, auto_confirm, sel, now))

GenerateDocsWithConfig(path, sess, idx, dir, session_id, outs, now) ==
    [mkdirs |-> {NewOrchestrator(path, now).session_id}] @@
    (IF session_id \notin DOMAIN sess
     THEN Outcome(sess, idx, dir, 1)
     ELSE RunGenerateDocumentsOp(NewOrchestrator(path, now), sess, idx, dir,
                                 session_id, outs, now))

\* the selections a reviewer can make for a session (none when no review is shown)
SelectionsFor(sess, session_id, auto_confirm) ==
    IF session_id \in DOMAIN sess /\ sess[session_id].stage = "ideas_generated"
       /\ ~auto_confirm
    THEN Selections(Len(sess[session_id].topics))
    ELSE {<<>>}

\* the document-generator outcomes, each of one of the given kinds, a
\* generation of the session can meet
OutcomesAmong(kinds, sess, session_id) ==
    IF session_id \in DOMAIN sess /\ sess[session_id].stage = "reviewed"
    THEN [1..Len(sess[session_id].selected_topics.val) -> kinds]
    ELSE {<<>>}

OutcomesFor(sess, session_id) == OutcomesAmong(Outcomes, sess, session_id)

RECURSIVE AllPendingLoop(_, _, _, _, _, _)
\* the loop of generate_all_pending_documents from the i-th entry of the list
\* read at its start: every way it can end, for every outcome of the document
\* generator.  acc: the disk so far, the counts and the sessions processed.
\* "except Exception" does not stop a KeyboardInterrupt: it ends the loop
AllPendingLoop(kinds, awaiting, i, acc, dir, now) ==
    IF i > Len(awaiting) THEN {acc}
    ELSE
    LET session_id == awaiting[i].session_id
    IN  IF session_id \notin DOMAIN acc.sessions
        THEN AllPendingLoop(kinds, awaiting, i + 1,
                            [acc EXCEPT !.failed_count = @ + 1,
                                        !.processed = Append(@, session_id)],
                            dir, now)
        ELSE UNION {
            LET r == RunGenerateDocumentsOp(FromSession(acc.sessions, session_id),
                                            acc.sessions, acc.indexFile, dir,
                                            session_id, outs, now)
                next == [sessions |-> r.sessions,
                         indexFile |-> r.indexFile,
                         success_count |-> acc.success_count
                                             + (IF r.ret = 0 THEN 1 ELSE 0),
                         failed_count |-> acc.failed_count
                                             + (IF r.ret = 0 \/ r.interrupted
                                                THEN 0 ELSE 1),
                         calls |-> acc.calls + r.calls,
                         processed |-> Append(acc.processed, session_id),
                         mkdirs |-> acc.mkdirs \cup {session_id},
                         interrupted |-> r.interrupted]
            IN  IF r.interrupted THEN {next}
                ELSE AllPendingLoop(kinds, awaiting, i + 1, next, dir, now)
            : outs \in OutcomesAmong(kinds, acc.sessions, session_id)}

\* mutant: only the first entry of the list is processed
GenerateAllPendingOp_FirstEntryOnly(kinds, sess, idx, dir, now) ==
    LET start == [sessions |-> sess, indexFile |-> idx, success_count |-> 0,
                  failed_count |-> 0, calls |-> 0, processed |-> <<>>,
                  mkdirs |-> {}, interrupted |-> FALSE]
        awaiting == IF idx.exists /\ idx.reviewed_awaiting_generation # <<>>
                    THEN <<Head(idx.reviewed_awaiting_generation)>> ELSE <<>>
    IN  {[success_count |-> a.success_count, failed_count |-> a.failed_count,
          processed |-> a.processed, calls |-> a.calls,
          mkdirs |-> a.mkdirs, interrupted |-> a.interrupted]
         @@ Outcome(a.sessions, a.indexFile, dir,
                    IF a.interrupted THEN 130
                    ELSE IF a.failed_count = 0 THEN 0 ELSE 1)
         : a \in AllPendingLoop(kinds, awaiting, 1, start, dir, now)}

\* generate_all_pending_documents: every way the batch can end
GenerateAllPendingOp(kinds, sess, idx, dir, now) ==
    LET start == [sessions |-> sess, indexFile |-> idx, success_count |-> 0,
                  failed_count |-> 0, calls |-> 0, processed |-> <<>>,
                  mkdirs |-> {}, interrupted |-> FALSE]
        awaiting == IF idx.exists THEN idx.reviewed_awaiting_generation ELSE <<>>
    IN  {[success_count |-> a.success_count, failed_count |-> a.failed_count,
          processed |-> a.processed, calls |-> a.calls,
          mkdirs |-> a.mkdirs, interrupted |-> a.interrupted]
         @@ Outcome(a.sessions, a.indexFile, dir,
                    IF a.interrupted THEN 130
                    ELSE IF a.failed_count = 0 THEN 0 ELSE 1)
         : a \in AllPendingLoop(kinds, awaiting, 1, start, dir, now)}

(* ------------------------------ actions -------------------------------- *)

\* what the last process did: its entry point, session and Outcome
Result(op, sid, r) ==
    [op |-> op, sid |-> sid, ret |-> r.ret, calls |-> r.calls,
     exit |-> r.exit, raised |-> r.raised, stage1 |-> r.stage1,
     shown |-> r.shown, selected |-> r.selected,
     outs |-> r.outs, interrupted |-> r.interrupted, mkdirs |-> r.mkdirs,
     args |-> IF op = "run" THEN r.args ELSE <<>>,
     success_count |-> IF op = "generate_all_pending" THEN r.success_count ELSE 0,
     failed_count |-> IF op = "generate_all_pending" THEN r.failed_count ELSE 0,
     processed |-> IF op = "generate_all_pending" THEN r.processed ELSE <<>>]

NoDisk == Outcome(<<>>, NoIndexFile, [s \in SessionIds |-> {}], 0)

Init ==
    /\ clock = 1
    /\ sessions = NoDisk.sessions
    /\ indexFile = NoDisk.indexFile
    /\ topicsDir = NoDisk.topicsDir
    /\ result = Result("init", 0, NoDisk)

\* the index lists stay within the model's bound
IndexWithinBound(idx) ==
    idx.exists => /\ Len(idx.pending_reviews) <= MaxIndexLen
                  /\ Len(idx.reviewed_awaiting_generation) <= MaxIndexLen

\* the process ends: what it wrote is on disk and its exit code is known
Commit(op, sid, r) ==
    /\ IndexWithinBound(r.indexFile)
    /\ sessions' = r.sessions
    /\ indexFile' = r.indexFile
    /\ topicsDir' = r.topicsDir
    /\ result' = Result(op, sid, r)
    /\ UNCHANGED clock

\* a second of wall clock passes
Tick ==
    /\ clock < MaxClock
    /\ clock' = clock + 1
    /\ result' = Result("tick", 0, NoDisk)
    /\ UNCHANGED <<sessions, indexFile, topicsDir>>

\* orchestrator.py --config <path> --generate-ideas
RunGenerateIdeas(path, exit, kind, written) ==
    Commit("generate_ideas", clock,
           RunGenerateIdeasOp(sessions, indexFile, topicsDir,
                              path, exit, kind, written, clock))

\* orchestrator.py --review --session <id> [--yes]
RunReviewSession(session_id, auto_confirm, sel) ==
    Commit("review", session_id,
           CliReview(sessions, indexFile, topicsDir, session_id, auto_confirm, sel, clock))

\* orchestrator.py --generate-docs --session <id>
RunGenerateDocuments(session_id, outs) ==
    Commit("generate_docs", session_id,
           CliGenerateDocs(sessions, indexFile, topicsDir, session_id, outs, clock))

\* the staged methods of an orchestrator built from a YAML file
RunReviewSessionWithConfig(path, session_id) ==
    Commit("review", session_id,
           ReviewWithConfig(path, sessions, indexFile, topicsDir,
                            session_id, TRUE, <<>>, clock))

RunGenerateDocumentsWithConfig(path, session_id, outs) ==
    Commit("generate_docs", session_id,
           GenerateDocsWithConfig(path, sessions, indexFile, topicsDir,
                                  session_id, outs, clock))

\* orchestrator.py --generate-all-pending, the document generator answering
\* in one of the given kinds
GenerateAllPendingAmong(kinds) ==
    \E r \in GenerateAllPendingOp(kinds, sessions, indexFile, topicsDir, clock) :
        Commit("generate_all_pending", 0, r)

GenerateAllPending == GenerateAllPendingAmong(Outcomes)

Next ==
    \/ Tick
    \/ \E path \in DefaultConfigPaths, exit \in Stage1Exits, kind \in Patterns,
          written \in {1..k : k \in 0..MaxTopics} :
            RunGenerateIdeas(path, exit, kind, written)
    \/ \E session_id \in SessionIds, auto_confirm \in BOOLEAN :
         \E sel \in SelectionsFor(sessions, session_id, auto_confirm) :
            RunReviewSession(session_id, auto_confirm, sel)
    \/ \E session_id \in SessionIds :
         \E outs \in OutcomesFor(sessions, session_id) :
            RunGenerateDocuments(session_id, outs)
    \/ GenerateAllPending

Spec == Init /\ [][Next]_vars

(* ------------ both configurations, and interrupted generators ---------- *)

\* what the document generator can do for one topic when the operator may
\* press Ctrl-C while it runs
OutcomesOrInterrupt == Outcomes \cup {Interrupt}

\* the same entry points, started with either YAML file (failure tolerance on
\* or off), the idea generator writing its full batch of topics or being
\* interrupted, every review run with --yes, and the document generator open
\* to interrupts
NextFaults ==
    \/ Tick
    \/ \E path \in ConfigPaths, exit \in {"ok", Interrupt}, kind \in Patterns :
            RunGenerateIdeas(path, exit, kind, 1..MaxTopics)
    \/ \E session_id \in SessionIds :
            RunReviewSession(session_id, TRUE, <<>>)
    \/ \E session_id \in SessionIds :
         \E outs \in OutcomesAmong(OutcomesOrInterrupt, sessions, session_id) :
            RunGenerateDocuments(session_id, outs)
    \/ GenerateAllPendingAmong(OutcomesOrInterrupt)

SpecFaults == Init /\ [][NextFaults]_vars

(* ----------------------- the full sequential mode ---------------------- *)

\* orchestrator.py --config <path> [--yes]
Run(path, exit, kind, written, auto_confirm, sel, outs) ==
    Commit("run", clock,
           [args |-> [path |-> path, kind |-> kind, written |-> written,
                      auto_confirm |-> auto_confirm, sel |-> sel]]
           @@ RunOp(sessions, indexFile, topicsDir, path, exit, kind, written,
                    auto_confirm, sel, outs, clock))

\* the selections the reviewer of a full run can make among the files found
SelectionsAmong(written, auto_confirm) ==
    IF auto_confirm THEN {<<>>} ELSE Selections(Cardinality(written))

\* full runs, next to staged idea generations of the default configuration
NextRun ==
    \/ Tick
    \/ \E path \in ConfigPaths, exit \in Stage1Exits \cup {Interrupt},
          kind \in Patterns, written \in {1..k : k \in 0..MaxTopics},
          auto_confirm \in BOOLEAN :
         \E sel \in SelectionsAmong(written, auto_confirm) :
          \E outs \in [1..(IF auto_confirm THEN Cardinality(written) ELSE Len(sel))
                          -> OutcomesOrInterrupt] :
            Run(path, exit, kind, written, auto_confirm, sel, outs)
    \/ \E path \in DefaultConfigPaths, kind \in Patterns :
            RunGenerateIdeas(path, "ok", kind, 1..MaxTopics)

SpecRun == Init /\ [][NextRun]_vars

(* ------- staged methods of an orchestrator built from a YAML file ------ *)

\* sessions started with either YAML file, then reviewed (--yes) and
\* generated by a process whose own configuration is that of either YAML
\* file, or by the command line, which rebuilds it from the session
NextLiveConfig ==
    \/ Tick
    \/ \E path \in ConfigPaths, kind \in Patterns :
            RunGenerateIdeas(path, "ok", kind, 1..MaxTopics)
    \/ \E path \in ConfigPaths, session_id \in SessionIds :
            RunReviewSessionWithConfig(path, session_id)
    \/ \E path \in ConfigPaths, session_id \in SessionIds :
         \E outs \in OutcomesFor(sessions, session_id) :
            RunGenerateDocumentsWithConfig(path, session_id, outs)
    \/ \E session_id \in SessionIds :
            RunReviewSession(session_id, TRUE, <<>>)
    \/ \E session_id \in SessionIds :
         \E outs \in OutcomesFor(sessions, session_id) :
            RunGenerateDocuments(session_id, outs)
    \/ GenerateAllPending

SpecLiveConfig == Init /\ [][NextLiveConfig]_vars

(* --------------------- _run_stage2 on its own -------------------------- *)

\* the i-th selected topic of a batch, as run_generate_documents rebuilds it
BatchTopic(i) ==
    [title |-> TitleOf(FileName("topic", i)),
     file_path |-> PathOf(TopicPathStr(1, FileName("topic", i)))]

\* a call of _run_stage2 about to be made: the configuration of self, the
\* selected topics and what the document generator will do for each
Stage2Args ==
    {[op |-> "stage2_args", cfg |-> LoadConfig(path),
      selected |-> [i \in 1..n |-> BatchTopic(i)], outs |-> outs] :
        path \in ConfigPaths, n \in 0..MaxBatch, outs \in
            UNION {[1..k -> Outcomes] : k \in 0..MaxBatch}}

InitStage2 ==
    /\ clock = 1
    /\ sessions = NoDisk.sessions
    /\ indexFile = NoDisk.indexFile
    /\ topicsDir = NoDisk.topicsDir
    /\ result \in {a \in Stage2Args : Len(a.outs) = Len(a.selected)}

\* self._run_stage2(selected_topics)
RunStage2Call ==
    /\ result.op = "stage2_args"
    /\ result' = [op |-> "run_stage2", cfg |-> result.cfg,
                  selected |-> result.selected, outs |-> result.outs,
                  ret |-> RunStage2(result.cfg, result.selected, result.outs)]
    /\ UNCHANGED <<clock, sessions, indexFile, topicsDir>>

NextStage2 == RunStage2Call

SpecStage2 == InitStage2 /\ [][NextStage2]_vars

(* ------------------- the pending index on its own ---------------------- *)

\* the entries a list of the index file can hold
PendingEntries ==
    {[session_id |-> s, created_at |-> 1, topic_count |-> MaxTopics,
      config_name |-> LoadConfig(path).name] :
        s \in SessionIds, path \in DefaultConfigPaths}

AwaitingEntries ==
    {[session_id |-> s, reviewed_at |-> 1, selected_count |-> MaxTopics] :
        s \in SessionIds}

SeqsUpTo(S, n) == UNION {[1..k -> S] : k \in 0..n}

\* every index file within the bound, and no index file
IndexFiles ==
    {NoIndexFile} \cup
    {[exists |-> TRUE, pending_reviews |-> p, reviewed_awaiting_generation |-> a] :
        p \in SeqsUpTo(PendingEntries, MaxIndexLen),
        a \in SeqsUpTo(AwaitingEntries, MaxIndexLen)}

InitIndex ==
    /\ clock = 1
    /\ sessions = NoDisk.sessions
    /\ indexFile \in IndexFiles
    /\ topicsDir = NoDisk.topicsDir
    /\ result = [op |-> "index", sid |-> 0, before |-> indexFile]

\* self._remove_from_awaiting_generation(session_id)
RemoveCall(session_id) ==
    /\ indexFile' = RemoveFromAwaitingGeneration(indexFile, session_id)
    /\ result' = [op |-> "remove", sid |-> session_id, before |-> indexFile]
    /\ UNCHANGED <<clock, sessions, topicsDir>>

NextIndex == \E session_id \in SessionIds : RemoveCall(session_id)

SpecIndex == InitIndex /\ [][NextIndex]_vars

(* --------------- the three index mutations on their own ---------------- *)

\* one call of an index mutation: _add_to_pending_reviews of the orchestrator
\* of the session, _move_to_awaiting_generation(session_id, n) or
\* _remove_from_awaiting_generation(session_id)
IndexCalls ==
    {[op |-> "add", sid |-> s, n |-> 0] : s \in SessionIds}
    \cup {[op |-> "move", sid |-> s, n |-> n] : s \in SessionIds, n \in 1..MaxTopics}
    \cup {[op |-> "remove", sid |-> s, n |-> 0] : s \in SessionIds}

\* the topic files of a session's topics directory
FullTopicsDir == {FileName("topic", n) : n \in 1..MaxTopics}

\* the orchestrator of a stored session, as __init__ builds it when it is
\* given the session id
OrchestratorOf(path, session_id, now) ==
    [NewOrchestrator(path, now) EXCEPT !.session_id = session_id]

\* the index file a call writes when it read idx
ApplyIndexCall(call, idx, now) ==
    CASE call.op = "add" ->
            AddToPendingReviews(idx, OrchestratorOf("a.yaml", call.sid, now),
                                FullTopicsDir, now)
      [] call.op = "move" -> MoveToAwaitingGeneration(idx, call.sid, call.n, now)
      [] call.op = "remove" -> RemoveFromAwaitingGeneration(idx, call.sid)

\* one mutation, from its read of the file to its write
IndexCall(call) ==
    /\ indexFile' = ApplyIndexCall(call, indexFile, clock)
    /\ IndexWithinBound(indexFile')
    /\ result' = [op |-> call.op, sid |-> call.sid, n |-> call.n,
                  before |-> indexFile]
    /\ UNCHANGED <<clock, sessions, topicsDir>>

NextIndexCalls == \E call \in IndexCalls : IndexCall(call)

SpecIndexCalls == InitIndex /\ [][NextIndexCalls]_vars

(* ------------- two processes, one index mutation each ------------------ *)

\* the two processes
Procs == {1, 2}

\* the index a mutation writes back is the one it loaded, with its own change:
\* json.dump(index, f) of the object json.load returned, whatever the file
\* holds by then
WrittenIndex_FromCurrentFile(call, loaded, current, now) ==
    ApplyIndexCall(call, current, now)

WrittenIndex(call, loaded, current, now) == ApplyIndexCall(call, loaded, now)

\* each process is about to make one mutation, for different sessions
InitIndexRace ==
    /\ clock = 1
    /\ sessions = NoDisk.sessions
    /\ indexFile \in IndexFiles
    /\ topicsDir = NoDisk.topicsDir
    /\ \E c1, c2 \in IndexCalls :
          /\ c1.sid # c2.sid
          /\ result = [op |-> "race", before |-> indexFile, log |-> <<>>,
                       procs |-> [p \in Procs |->
                                    [call |-> IF p = 1 THEN c1 ELSE c2,
                                     pc |-> "start", index |-> NoIndexFile]]]

\* index_file.exists() and json.load: _add_to_pending_reviews starts from two
\* empty lists when there is no file, the other two mutations return
ReadIndex(p) ==
    LET me == result.procs[p]
    IN  /\ me.pc = "start"
        /\ result' =
              [result EXCEPT
                 !.log = Append(@, [proc |-> p, step |-> "read"]),
                 !.procs[p] =
                    IF indexFile.exists \/ me.call.op = "add"
                    THEN [me EXCEPT !.pc = "loaded", !.index = indexFile]
                    ELSE [me EXCEPT !.pc = "done"]]
        /\ UNCHANGED <<clock, sessions, indexFile, topicsDir>>

\* the change in memory and open(index_file, 'w'); json.dump
WriteIndex(p) ==
    LET me == result.procs[p]
    IN  /\ me.pc = "loaded"
        /\ indexFile' = WrittenIndex(me.call, me.index, indexFile, clock)
        /\ result' = [result EXCEPT
                        !.log = Append(@, [proc |-> p, step |-> "write"]),
                        !.procs[p] = [me EXCEPT !.pc = "done"]]
        /\ UNCHANGED <<clock, sessions, topicsDir>>

NextIndexRace == \E p \in Procs : ReadIndex(p) \/ WriteIndex(p)

SpecIndexRace == InitIndexRace /\ [][NextIndexRace]_vars

(* --------- staged operations step by step, several processes ----------- *)

\* the command lines started within one second
MaxProcs == 3

StepProcs == 1..MaxProcs

StagedOps == {"generate_ideas", "review", "generate_docs"}

\* a command line that has not been started
ProcIdle ==
    [op |-> "", pc |-> "idle", self |-> None, state |-> None, topics |-> <<>>,
     selected |-> <<>>, documents |-> <<>>, calls |-> 0, index |-> NoIndexFile,
     ret |-> 0]

Active(proc) == proc.pc \notin {"idle", "done", "killed"}

\* the disk after `--generate-ideas --config a.yaml` at second 1
AfterIdeas ==
    RunGenerateIdeasOp(NoDisk.sessions, NoDisk.indexFile, NoDisk.topicsDir,
                       "a.yaml", "ok", "topic", 1..MaxTopics, 1)

InitSteps ==
    /\ clock = 1
    /\ \E disk \in {NoDisk, AfterIdeas} :
          /\ sessions = disk.sessions
          /\ indexFile = disk.indexFile
          /\ topicsDir = disk.topicsDir
    /\ result = [op |-> "steps", overlap |-> FALSE,
                 procs |-> [p \in StepProcs |-> ProcIdle]]

\* main() builds the orchestrator: DocOrchestrator(args.config) for a new run
\* whose session id is free, from_session(args.session) for the other two,
\* which raises FileNotFoundError (exit 1) when the record is missing
Launch(p, op) ==
    LET sid == clock
        fresh == [ProcIdle EXCEPT !.op = op]
    IN  /\ result.procs[p].pc = "idle"
        /\ op = "generate_ideas" => sid \notin DOMAIN sessions
        /\ op = "generate_ideas" =>
                \A q \in StepProcs : result.procs[q].op # "generate_ideas"
        /\ result' =
              [result EXCEPT
                 !.overlap = @ \/ \E q \in StepProcs : Active(result.procs[q]),
                 !.procs[p] =
                    IF op = "generate_ideas"
                    THEN [fresh EXCEPT !.pc = "start",
                                       !.self = Some(NewOrchestrator("a.yaml", clock))]
                    ELSE IF sid \notin DOMAIN sessions
                    THEN [fresh EXCEPT !.pc = "done", !.ret = 1]
                    ELSE [fresh EXCEPT !.pc = "start",
                                       !.self = Some(FromSession(sessions, sid))]]
        /\ UNCHANGED <<clock, sessions, indexFile, topicsDir>>

\* run_generate_ideas up to _parse_topic_files: the idea generator exits 0 and
\* its topic files are moved to the session
IdeasStep(p) ==
    LET me == result.procs[p]
        self == me.self.val
        st1 == RunStage1(self, "ok", "topic", 1..MaxTopics)
        moved == {st1.topic_files[i].parts[4] : i \in 1..Len(st1.topic_files)}
    IN  /\ me.op = "generate_ideas" /\ me.pc = "start"
        /\ topicsDir' = [topicsDir EXCEPT ![self.session_id] = @ \cup moved]
        /\ result' = [result EXCEPT !.procs[p] =
                        [me EXCEPT !.pc = "worked",
                                   !.topics = TopicsToJson(ParseTopicFiles(st1.topic_files))]]
        /\ UNCHANGED <<clock, sessions, indexFile>>

\* run_review_session up to _interactive_review (with --yes): the record is
\* loaded and its stage checked
ReviewStep(p) ==
    LET me == result.procs[p]
        session_id == me.self.val.session_id
        state == LoadSessionState(sessions, session_id)
        topics == [i \in 1..Len(state.topics) |->
                     [file_path |-> PathOf(state.topics[i].file_path),
                      title |-> state.topics[i].title]]
        selected_topics == InteractiveReview(topics, TRUE, <<>>)
    IN  /\ me.op = "review" /\ me.pc = "start"
        /\ result' = [result EXCEPT !.procs[p] =
                        IF state.stage # "ideas_generated" \/ selected_topics = <<>>
                        THEN [me EXCEPT !.pc = "done", !.ret = 0]
                        ELSE [me EXCEPT
                                !.pc = "worked",
                                !.self = Some([me.self.val EXCEPT
                                                 !.config = state.config_snapshot]),
                                !.state = Some(state),
                                !.selected = selected_topics]]
        /\ UNCHANGED <<clock, sessions, indexFile, topicsDir>>

\* run_generate_documents up to _run_stage2, the document generator exiting 0
\* for every topic: the record is loaded and its stage checked
DocumentsStep(p) ==
    LET me == result.procs[p]
        session_id == me.self.val.session_id
        state == LoadSessionState(sessions, session_id)
        selected_topics ==
            [i \in 1..Len(state.selected_topics.val) |->
                [title |-> state.selected_topics.val[i].title,
                 file_path |-> PathOf(state.selected_topics.val[i].file_path)]]
        st2 == RunStage2(state.config_snapshot, selected_topics,
                         [i \in 1..Len(selected_topics) |-> "ok"])
    IN  /\ me.op = "generate_docs" /\ me.pc = "start"
        /\ result' = [result EXCEPT !.procs[p] =
                        IF state.stage # "reviewed"
                        THEN [me EXCEPT !.pc = "done", !.ret = 1]
                        ELSE [me EXCEPT
                                !.pc = "worked",
                                !.self = Some([me.self.val EXCEPT
                                                 !.config = state.config_snapshot]),
                                !.state = Some(state),
                                !.selected = selected_topics,
                                !.documents = st2.documents,
                                !.calls = st2.calls]]
        /\ UNCHANGED <<clock, sessions, indexFile, topicsDir>>

\* self._save_session_state(...) of the three staged operations
SaveStep(p) ==
    LET me == result.procs[p]
        self == me.self.val
    IN  /\ me.pc = "worked"
        /\ sessions' =
              CASE me.op = "generate_ideas" ->
                     SaveSessionState(sessions, self, "ideas_generated",
                                      me.topics, None, <<>>, clock)
                [] me.op = "review" ->
                     SaveSessionState(sessions, self, "reviewed", me.state.val.topics,
                                      Some(TopicsToJson(me.selected)), <<>>, clock)
                [] me.op = "generate_docs" ->
                     SaveSessionState(sessions, self, "completed", me.state.val.topics,
                                      me.state.val.selected_topics, me.documents, clock)
        /\ result' = [result EXCEPT !.procs[p] = [me EXCEPT !.pc = "saved"]]
        /\ UNCHANGED <<clock, indexFile, topicsDir>>

\* the index mutation that follows the save, up to json.load: without an index
\* file _add_to_pending_reviews goes on, the other two return
IndexLoadStep(p) ==
    LET me == result.procs[p]
    IN  /\ me.pc = "saved"
        /\ result' = [result EXCEPT !.procs[p] =
                        IF indexFile.exists \/ me.op = "generate_ideas"
                        THEN [me EXCEPT !.pc = "index_loaded", !.index = indexFile]
                        ELSE [me EXCEPT !.pc = "done", !.ret = 0]]
        /\ UNCHANGED <<clock, sessions, indexFile, topicsDir>>

\* the index mutation from its change to json.dump, and return 0
IndexDumpStep(p) ==
    LET me == result.procs[p]
        self == me.self.val
    IN  /\ me.pc = "index_loaded"
        /\ indexFile' =
              CASE me.op = "generate_ideas" ->
                     AddToPendingReviews(me.index, self,
                                         topicsDir[self.session_id], clock)
                [] me.op = "review" ->
                     MoveToAwaitingGeneration(me.index, self.session_id,
                                              Len(me.selected), clock)
                [] me.op = "generate_docs" ->
                     RemoveFromAwaitingGeneration(me.index, self.session_id)
        /\ result' = [result EXCEPT !.procs[p] = [me EXCEPT !.pc = "done", !.ret = 0]]
        /\ UNCHANGED <<clock, sessions, topicsDir>>

\* the process ends where it is: Ctrl-C (KeyboardInterrupt is no Exception, the
\* staged operations do not catch it) or a kill
Kill(p) ==
    LET me == result.procs[p]
    IN  /\ Active(me)
        /\ result' = [result EXCEPT !.procs[p] = [me EXCEPT !.pc = "killed", !.ret = 130]]
        /\ UNCHANGED <<clock, sessions, indexFile, topicsDir>>

NextSteps ==
    \E p \in StepProcs :
        \/ \E op \in StagedOps : Launch(p, op)
        \/ IdeasStep(p)
        \/ ReviewStep(p)
        \/ DocumentsStep(p)
        \/ SaveStep(p)
        \/ IndexLoadStep(p)
        \/ IndexDumpStep(p)
        \/ Kill(p)

SpecSteps == InitSteps /\ [][NextSteps]_vars

(* --------------- idea generations under either pattern ----------------- *)

\* the two patterns of _discover_topic_files: topic_*.md and analysis_*.md
BothPatterns == {"topic", "analysis"}

\* idea generations whose files are found under the primary or under the
\* secondary pattern, and reviews with --yes
NextPatterns ==
    \/ Tick
    \/ \E path \in DefaultConfigPaths, exit \in Stage1Exits, kind \in BothPatterns,
          written \in {1..k : k \in 0..MaxTopics} :
            RunGenerateIdeas(path, exit, kind, written)
    \/ \E session_id \in SessionIds :
            RunReviewSession(session_id, TRUE, <<>>)

SpecPatterns == Init /\ [][NextPatterns]_vars

(* ------------- the working directory around _run_stage1 --------------- *)

\* directories the orchestrator can be started in, as absolute paths
WorkingDirs == {<<"/", "work">>, <<"/", "home", "user">>, <<"/">>}

\* idea_generator_path: the default under scripts_dir or an absolute path
\* from the configuration, or a path relative to the working directory
GeneratorPaths ==
    {<<"/", "scripts", "DocIdeaGenerator", "cli.py">>,
     <<"/", "opt", "ideas", "cli.py">>,
     <<"DocIdeaGenerator", "cli.py">>,
     <<"cli.py">>}

\* every way the idea-generation stage can end: the generator's exit, its
\* timeout, Ctrl-C, or an exception while the topic files are resolved
Stage1Ends == Stage1Exits \cup {Interrupt, "resolve_error"}

\* Path.parent
Parent(path) == SubSeq(path, 1, Len(path) - 1)

\* os.chdir(d): an absolute path replaces the working directory, a relative
\* one is resolved against it
Chdir(cwd, d) == IF d # <<>> /\ Head(d) = "/" THEN d ELSE cwd \o d

\* the end leaves the try block by an exception
LeavesByException(end) == end \in {"timeout", Interrupt, "resolve_error"}

\* mutant: the working directory is restored after the try block, not in a
\* finally clause
Stage1Cwd_RestoredOnReturnOnly(cwd, idea_generator_path, end) ==
    LET idea_gen_dir == Parent(idea_generator_path)
        original_cwd == cwd
        during == Chdir(cwd, idea_gen_dir)
    IN  [during |-> during,
         after |-> IF LeavesByException(end) THEN during
                   ELSE Chdir(during, original_cwd)]

\* the working directory _run_stage1 gives the idea generator and the one it
\* leaves: os.chdir(idea_gen_dir) before the try block, os.chdir(original_cwd)
\* in its finally clause
Stage1Cwd(cwd, idea_generator_path, end) ==
    LET idea_gen_dir == Parent(idea_generator_path)
        original_cwd == cwd
        during == Chdir(cwd, idea_gen_dir)
    IN  [during |-> during, after |-> Chdir(during, original_cwd)]

Stage1Args ==
    [op : {"stage1_args"}, cwd : WorkingDirs, idea_generator_path : GeneratorPaths,
     end : Stage1Ends, written : {1..k : k \in 0..MaxTopics}]

InitStage1 ==
    /\ clock = 1
    /\ sessions = NoDisk.sessions
    /\ indexFile = NoDisk.indexFile
    /\ topicsDir = NoDisk.topicsDir
    /\ result \in Stage1Args

\* self._run_stage1() in a process whose working directory is result.cwd
RunStage1Call ==
    LET self == NewOrchestrator("a.yaml", clock)
        dirs == Stage1Cwd(result.cwd, result.idea_generator_path, result.end)
        st1 == IF result.end = "resolve_error"
               THEN [raised |-> TRUE, interrupted |-> FALSE, topic_files |-> <<>>]
               ELSE RunStage1(self, result.end, "topic", result.written)
    IN  /\ result.op = "stage1_args"
        /\ result' = [op |-> "stage1", before |-> result.cwd,
                      idea_generator_path |-> result.idea_generator_path,
                      end |-> result.end,
                      generator_cwd |-> dirs.during,
                      cwd |-> dirs.after,
                      raised |-> st1.raised, interrupted |-> st1.interrupted,
                      topic_files |-> st1.topic_files]
        /\ UNCHANGED <<clock, sessions, indexFile, topicsDir>>

NextStage1 == RunStage1Call

SpecStage1 == InitStage1 /\ [][NextStage1]_vars

(* ------------- the working directory around _run_stage2 --------------- *)

\* doc_generator_path: the default under scripts_dir or an absolute path from
\* the configuration, or a path relative to the working directory
DocGeneratorPaths ==
    {<<"/", "scripts", "PersonalizedDocGenerator", "document_generator.py">>,
     <<"/", "opt", "docs", "document_generator.py">>,
     <<"PersonalizedDocGenerator", "document_generator.py">>,
     <<"document_generator.py">>}

\* the working directory of each document-generator invocation of _run_stage2
\* and the one it leaves: subprocess.run is given no cwd and _run_stage2 calls
\* no os.chdir, so the child inherits the directory of the caller
Stage2Cwd(cwd, doc_generator_path, calls) ==
    [during |-> [i \in 1..calls |-> cwd], after |-> cwd]

InitStage2Cwd ==
    /\ clock = 1
    /\ sessions = NoDisk.sessions
    /\ indexFile = NoDisk.indexFile
    /\ topicsDir = NoDisk.topicsDir
    /\ result \in [op : {"stage2_cwd_args"}, cwd : WorkingDirs,
                    doc_generator_path : DocGeneratorPaths, path : ConfigPaths,
                    outs : UNION {[1..k -> OutcomesOrInterrupt] :
                                     k \in 0..MaxTopics}]

\* self._run_stage2(selected_topics) in a process whose working directory is
\* result.cwd
RunStage2InDir ==
    LET selected == [i \in 1..Len(result.outs) |-> BatchTopic(i)]
        st2 == RunStage2(LoadConfig(result.path), selected, result.outs)
        dirs == Stage2Cwd(result.cwd, result.doc_generator_path, st2.calls)
    IN  /\ result.op = "stage2_cwd_args"
        /\ result' = [op |-> "stage2_cwd", before |-> result.cwd,
                      doc_generator_path |-> result.doc_generator_path,
                      outs |-> result.outs, calls |-> st2.calls,
                      raised |-> st2.raised, interrupted |-> st2.interrupted,
                      generator_cwds |-> dirs.during, cwd |-> dirs.after]
        /\ UNCHANGED <<clock, sessions, indexFile, topicsDir>>

NextStage2Cwd == RunStage2InDir

SpecStage2Cwd == InitStage2Cwd /\ [][NextStage2Cwd]_vars

(* ------------- stage 1: finding and moving the topic files ------------- *)

\* the directories of the files of a run: the idea generator's own, another
\* one it may write to, and the topics directory of the session
Dirs == {"gen", "other", "topics"}

\* the markdown files the idea generator can leave: topic_<n>.md,
\* analysis_<n>.md and one file of neither pattern
GeneratedNames ==
    {FileName(kind, n) : kind \in {"topic", "analysis"}, n \in 1..MaxTopics}
    \cup {FileName("notes", 1)}

\* a file keeps the directory it was written in as its identity
FileIn(dir, name) == [name |-> name, origin |-> dir]

FilePath(dir, name) == [dir |-> dir, name |-> name]

\* Path.exists()
Exists(fs, path) == \E f \in fs[path.dir] : f.name = path.name

FileAt(fs, path) == CHOOSE f \in fs[path.dir] : f.name = path.name

\* shutil.move(src, topics_dir / src.name): the file leaves its directory and
\* takes the place of any file of that name in the topics directory
MoveToTopics(fs, src) ==
    LET f == FileAt(fs, src)
    IN  [d \in Dirs |->
            IF d = "topics" THEN {g \in fs[d] : g.name # f.name} \cup {f}
            ELSE IF d = src.dir THEN fs[d] \ {f}
            ELSE fs[d]]

\* the order of file names in a directory listing
NameRank(name) ==
    (CASE name.kind = "analysis" -> 0
       [] name.kind = "notes" -> 1
       [] name.kind = "topic" -> 2) * (MaxTopics + 1) + name.n

RECURSIVE SortedPaths(_)
\* sorted(topic_files) of paths of the topics directory
SortedPaths(paths) ==
    IF paths = <<>> THEN <<>>
    ELSE LET i == CHOOSE i \in DOMAIN paths :
                    \A j \in DOMAIN paths :
                        NameRank(paths[i].parts[4]) <= NameRank(paths[j].parts[4])
         IN  <<paths[i]>> \o
             SortedPaths([k \in 1..(Len(paths) - 1) |->
                            IF k < i THEN paths[k] ELSE paths[k + 1]])

\* self.topics_dir / name
DestPath(self, name) == PathOf(TopicPathStr(self.session_id, name))

RECURSIVE MoveAll(_, _)
\* the loop of _discover_topic_files over the matched names
MoveAll(fs, names) ==
    IF names = {} THEN fs
    ELSE LET n == CHOOSE n \in names : TRUE
         IN  MoveAll(MoveToTopics(fs, FilePath("gen", n)), names \ {n})

\* idea_gen_dir.glob(pattern)
Glob(fs, kind) == {f.name : f \in {g \in fs["gen"] : g.name.kind = kind}}

\* mutant: both patterns are always collected
DiscoverTopicFiles_BothPatterns(self, fs) ==
    LET topic_files == Glob(fs, "topic") \cup Glob(fs, "analysis")
        names == SortedSeq({NameRank(n) : n \in topic_files})
    IN  [fs |-> MoveAll(fs, topic_files),
         topic_files |->
            [i \in 1..Len(names) |->
                DestPath(self, CHOOSE n \in topic_files : NameRank(n) = names[i])]]

\* _discover_topic_files(idea_gen_dir): topic_*.md, or analysis_*.md when no
\* topic_*.md is there; every match is moved to the topics directory
DiscoverTopicFiles(self, fs) ==
    LET primary == Glob(fs, "topic")
        topic_files == IF primary = {} THEN Glob(fs, "analysis") ELSE primary
        names == SortedSeq({NameRank(n) : n \in topic_files})
    IN  [fs |-> MoveAll(fs, topic_files),
         topic_files |->
            [i \in 1..Len(names) |->
                DestPath(self, CHOOSE n \in topic_files : NameRank(n) = names[i])]]

\* the manifest file of the run: none (not asked for or not written), one
\* json.load cannot read, or a JSON object with a list of topics
NoManifest == [kind |-> "none"]

CorruptManifest == [kind |-> "corrupt"]

\* the entry the idea generator writes for a file: its path and metadata
ManifestEntry(dir, name) ==
    [file |-> Some(FilePath(dir, name)),
     title |-> Some(<<"manifest title", name.kind, name.n>>),
     key_insights |-> <<"insight", "insight", "insight">>,
     notable_quotes |-> <<"quote", "quote">>, word_count |-> 100]

\* an entry without "file"
EntryWithoutFile ==
    [file |-> None, title |-> Some(<<"manifest title", "", 0>>),
     key_insights |-> <<>>, notable_quotes |-> <<>>, word_count |-> 0]

RECURSIVE ManifestLoop(_, _, _, _, _)
\* the loop of _load_topics_from_manifest from the i-th entry: Path(None)
\* raises, a missing file is skipped, a file outside the topics directory is
\* moved into it
ManifestLoop(self, fs, entries, i, topic_files) ==
    IF i > Len(entries)
    THEN [failed |-> FALSE, fs |-> fs, topic_files |-> topic_files]
    ELSE IF ~entries[i].file.some
    THEN [failed |-> TRUE, fs |-> fs, topic_files |-> topic_files]
    ELSE
    LET file_path == entries[i].file.val
    IN  IF ~Exists(fs, file_path)
        THEN ManifestLoop(self, fs, entries, i + 1, topic_files)
        ELSE IF file_path.dir # "topics"
        THEN ManifestLoop(self, MoveToTopics(fs, file_path), entries, i + 1,
                          Append(topic_files, DestPath(self, file_path.name)))
        ELSE ManifestLoop(self, fs, entries, i + 1,
                          Append(topic_files, DestPath(self, file_path.name)))

\* mutant: an error while the manifest is processed leaves the method
LoadTopicsFromManifest_Propagates(self, fs, manifest) ==
    IF manifest.kind = "corrupt"
    THEN [fs |-> fs, topic_files |-> <<>>, manifest |-> None,
          fell_back |-> TRUE, fallback_fs |-> fs, raised |-> TRUE]
    ELSE
    LET loop == ManifestLoop(self, fs, manifest.topics, 1, <<>>)
    IN  IF loop.failed
        THEN [fs |-> loop.fs, topic_files |-> <<>>, manifest |-> Some(manifest),
              fell_back |-> TRUE, fallback_fs |-> loop.fs, raised |-> TRUE]
        ELSE [fs |-> loop.fs, topic_files |-> SortedPaths(loop.topic_files),
              manifest |-> Some(manifest), fell_back |-> FALSE,
              fallback_fs |-> fs, raised |-> FALSE]

\* _load_topics_from_manifest: self.manifest is set once json.load has
\* returned; any exception ends in _discover_topic_files on the idea
\* generator's directory as it is by then
LoadTopicsFromManifest(self, fs, manifest) ==
    IF manifest.kind = "corrupt"
    THEN [manifest |-> None, fell_back |-> TRUE, fallback_fs |-> fs,
          raised |-> FALSE] @@ DiscoverTopicFiles(self, fs)
    ELSE
    LET loop == ManifestLoop(self, fs, manifest.topics, 1, <<>>)
    IN  IF loop.failed
        THEN [manifest |-> Some(manifest), fell_back |-> TRUE,
              fallback_fs |-> loop.fs, raised |-> FALSE]
             @@ DiscoverTopicFiles(self, loop.fs)
        ELSE [fs |-> loop.fs, topic_files |-> SortedPaths(loop.topic_files),
              manifest |-> Some(manifest), fell_back |-> FALSE,
              fallback_fs |-> fs, raised |-> FALSE]

\* the end of _run_stage1 after exit code 0: the manifest if there is one,
\* file discovery otherwise
ResolveTopicFiles(self, fs, manifest) ==
    IF manifest.kind # "none"
    THEN LoadTopicsFromManifest(self, fs, manifest)
    ELSE [manifest |-> None, fell_back |-> FALSE, fallback_fs |-> fs,
          raised |-> FALSE] @@ DiscoverTopicFiles(self, fs)

\* _parse_topics_from_manifest builds its file-name map first: Path(None)
\* raises there for an entry without "file"
ManifestParseRaises(manifest) ==
    \E i \in DOMAIN manifest.topics : ~manifest.topics[i].file.some

\* mutant: the counts of a manifest entry are capped like those of a file
ParseTopicsFromManifest_Capped(manifest, topic_files) ==
    LET listed == {i \in DOMAIN manifest.topics : manifest.topics[i].file.some}
        Matches(name) == {i \in listed : manifest.topics[i].file.val.name = name}
        Data(name) == manifest.topics[CHOOSE i \in Matches(name) :
                                        \A j \in Matches(name) : j <= i]
        Capped(n) == IF n < 10 THEN n ELSE 10
    IN  [k \in 1..Len(topic_files) |->
            LET name == topic_files[k].parts[4]
            IN  IF Matches(name) = {}
                THEN [file_path |-> topic_files[k], title |-> TitleOf(name),
                      insights_count |-> 0, quotes_count |-> 0, size |-> 0]
                ELSE [file_path |-> topic_files[k],
                      title |-> IF Data(name).title.some
                                THEN Data(name).title.val ELSE TitleOf(name),
                      insights_count |-> Capped(Len(Data(name).key_insights)),
                      quotes_count |-> Capped(Len(Data(name).notable_quotes)),
                      size |-> Data(name).word_count]]

\* mutant: the title is always the title-cased stem
ParseTopicsFromManifest_StemTitles(manifest, topic_files) ==
    LET listed == {i \in DOMAIN manifest.topics : manifest.topics[i].file.some}
        Matches(name) == {i \in listed : manifest.topics[i].file.val.name = name}
        Data(name) == manifest.topics[CHOOSE i \in Matches(name) :
                                        \A j \in Matches(name) : j <= i]
    IN  [k \in 1..Len(topic_files) |->
            LET name == topic_files[k].parts[4]
            IN  IF Matches(name) = {}
                THEN [file_path |-> topic_files[k], title |-> TitleOf(name),
                      insights_count |-> 0, quotes_count |-> 0, size |-> 0]
                ELSE [file_path |-> topic_files[k],
                      title |-> TitleOf(name),
                      insights_count |-> Len(Data(name).key_insights),
                      quotes_count |-> Len(Data(name).notable_quotes),
                      size |-> Data(name).word_count]]

\* _parse_topics_from_manifest: the entry of a file is the last one listed
\* under its file name; the counts are list lengths, the size is word_count
ParseTopicsFromManifest(manifest, topic_files) ==
    LET listed == {i \in DOMAIN manifest.topics : manifest.topics[i].file.some}
        Matches(name) == {i \in listed : manifest.topics[i].file.val.name = name}
        Data(name) == manifest.topics[CHOOSE i \in Matches(name) :
                                        \A j \in Matches(name) : j <= i]
    IN  [k \in 1..Len(topic_files) |->
            LET name == topic_files[k].parts[4]
            IN  IF Matches(name) = {}
                THEN [file_path |-> topic_files[k], title |-> TitleOf(name),
                      insights_count |-> 0, quotes_count |-> 0, size |-> 0]
                ELSE [file_path |-> topic_files[k],
                      title |-> IF Data(name).title.some
                                THEN Data(name).title.val ELSE TitleOf(name),
                      insights_count |-> Len(Data(name).key_insights),
                      quotes_count |-> Len(Data(name).notable_quotes),
                      size |-> Data(name).word_count]]

\* the directories and the manifest the idea generator can leave behind
StartDirs ==
    {[d \in Dirs |->
        IF d = "gen" THEN {FileIn("gen", n) : n \in names}
        ELSE IF d = "other" THEN {FileIn("other", n) : n \in others}
        ELSE {}] :
     names \in SUBSET GeneratedNames, others \in SUBSET {FileName("topic", 1)}}

Manifests ==
    {NoManifest, CorruptManifest}
    \cup {[kind |-> "json", topics |-> t] :
            t \in UNION {[1..k ->
                            {ManifestEntry("gen", FileName("topic", n)) :
                                n \in 1..MaxTopics}
                            \cup {ManifestEntry("other", FileName("topic", 1)),
                                  ManifestEntry("gen", FileName("notes", 1)),
                                  EntryWithoutFile}] : k \in 0..MaxTopics}}

InitResolve ==
    /\ clock = 1
    /\ sessions = NoDisk.sessions
    /\ indexFile = NoDisk.indexFile
    /\ topicsDir = NoDisk.topicsDir
    /\ result \in [op : {"resolve_args"}, fs : StartDirs, manifest : Manifests]

\* the idea generator has exited with 0: _run_stage1 finds the topic files,
\* and the caller parses them
ResolveCall ==
    LET self == NewOrchestrator("a.yaml", clock)
        r == ResolveTopicFiles(self, result.fs, result.manifest)
    IN  /\ result.op = "resolve_args"
        /\ result' = [op |-> "resolve", before |-> result.fs,
                      given |-> result.manifest,
                      fs |-> r.fs, topic_files |-> r.topic_files,
                      manifest |-> r.manifest, fell_back |-> r.fell_back,
                      fallback_fs |-> r.fallback_fs, raised |-> r.raised,
                      parse_raised |-> IF r.manifest.some
                                       THEN ManifestParseRaises(r.manifest.val)
                                       ELSE FALSE,
                      topics |-> IF r.manifest.some
                                 THEN IF ManifestParseRaises(r.manifest.val)
                                      THEN <<>>
                                      ELSE ParseTopicsFromManifest(r.manifest.val,
                                                                   r.topic_files)
                                 ELSE ParseTopicFiles(r.topic_files)]
        /\ UNCHANGED <<clock, sessions, indexFile, topicsDir>>

NextResolve == ResolveCall

SpecResolve == InitResolve /\ [][NextResolve]_vars

(* ------------------- parsing the content of topic files ---------------- *)

\* a line of a file is its sequence of tokens; " " is a blank, every other
\* token a run of characters without blank

\* str.startswith
StartsWith(line, prefix) ==
    /\ Len(line) >= Len(prefix)
    /\ SubSeq(line, 1, Len(prefix)) = prefix

RECURSIVE LStrip(_, _)
\* str.lstrip(chars)
LStrip(line, chars) ==
    IF line # <<>> /\ Head(line) \in chars THEN LStrip(Tail(line), chars) ELSE line

RECURSIVE RStrip(_, _)
RStrip(line, chars) ==
    IF line # <<>> /\ line[Len(line)] \in chars
    THEN RStrip(SubSeq(line, 1, Len(line) - 1), chars)
    ELSE line

\* str.strip()
Strip(line) == RStrip(LStrip(line, {" "}), {" "})

\* line.split(':', 1)[-1]: what follows the first colon, the whole line when
\* it has none
AfterFirstColon(line) ==
    IF \E i \in DOMAIN line : line[i] = ":"
    THEN LET i == CHOOSE i \in DOMAIN line :
                    line[i] = ":" /\ \A j \in 1..(i - 1) : line[j] # ":"
         IN  SubSeq(line, i + 1, Len(line))
    ELSE line

\* line.strip().startswith('## TOPIC')
IsTopicHeading(line) == StartsWith(Strip(line), <<"#", "#", " ", "TOPIC">>)

IsHeading(line) == StartsWith(line, <<"#">>)

\* mutant: the first heading of the file wins, of either kind
TitleFromContent_FirstHeadingWins(name, lines) ==
    IF \E i \in DOMAIN lines : IsHeading(lines[i]) \/ IsTopicHeading(lines[i])
    THEN LET first == lines[CHOOSE i \in DOMAIN lines :
                         /\ IsHeading(lines[i]) \/ IsTopicHeading(lines[i])
                         /\ \A j \in 1..(i - 1) :
                               ~(IsHeading(lines[j]) \/ IsTopicHeading(lines[j]))]
         IN  IF IsTopicHeading(first)
             THEN Strip(AfterFirstColon(first))
             ELSE Strip(LStrip(first, {"#"}))
    ELSE TitleOf(name)

\* the title _parse_topic_files takes from a file: the first '## TOPIC' line
\* of the whole file, else the first line that starts with '#', else the
\* title-cased stem
TitleFromContent(name, lines) ==
    IF \E i \in DOMAIN lines : IsTopicHeading(lines[i])
    THEN Strip(AfterFirstColon(
                  lines[CHOOSE i \in DOMAIN lines :
                          /\ IsTopicHeading(lines[i])
                          /\ \A j \in 1..(i - 1) : ~IsTopicHeading(lines[j])]))
    ELSE IF \E i \in DOMAIN lines : IsHeading(lines[i])
    THEN Strip(LStrip(lines[CHOOSE i \in DOMAIN lines :
                              /\ IsHeading(lines[i])
                              /\ \A j \in 1..(i - 1) : ~IsHeading(lines[j])],
                      {"#"}))
    ELSE TitleOf(name)

\* the lines a topic file can hold
TitleLines ==
    {<<"#", "#", " ", "TOPIC", " ", "1", ":", " ", "a">>,
     <<"#", "#", " ", "TOPIC", ":", "b", ":", "c">>,
     <<"#", "#", " ", "TOPIC", " ", "d">>,
     <<" ", "#", "#", " ", "TOPIC", ":", " ", "e", " ">>,
     <<"#", " ", "h">>,
     <<"#", "#", "#", " ", "g", ":", "x">>,
     <<" ", "#", " ", "i">>,
     <<"p">>,
     <<>>}

\* the longest file of the title runs, in lines
MaxLines == 2

InitTitle ==
    /\ clock = 1
    /\ sessions = NoDisk.sessions
    /\ indexFile = NoDisk.indexFile
    /\ topicsDir = NoDisk.topicsDir
    /\ result \in [op : {"title_args"},
                    name : {FileName("topic", n) : n \in 1..MaxTopics},
                    lines : UNION {[1..k -> TitleLines] : k \in 0..MaxLines}]

\* the title part of _parse_topic_files for one file
TitleCall ==
    /\ result.op = "title_args"
    /\ result' = [op |-> "title", name |-> result.name, lines |-> result.lines,
                  title |-> TitleFromContent(result.name, result.lines)]
    /\ UNCHANGED <<clock, sessions, indexFile, topicsDir>>

NextTitle == TitleCall

SpecTitle == InitTitle /\ [][NextTitle]_vars

(* -------------- the two ways to make topics of topic files ------------- *)

\* the occurrences of a piece of text in a line
Occurrences(line, text) ==
    Cardinality({i \in 1..(Len(line) - Len(text) + 1) :
                    SubSeq(line, i, i + Len(text) - 1) = text})

RECURSIVE Count(_, _)
\* content.count(text), for a text without line break
Count(lines, text) ==
    IF lines = <<>> THEN 0
    ELSE Occurrences(Head(lines), text) + Count(Tail(lines), text)

\* the words of a line as str.split() sees them: the runs of tokens between
\* blanks
Words(line) ==
    Cardinality({i \in DOMAIN line :
                    line[i] # " " /\ (i = 1 \/ line[i - 1] = " ")})

RECURSIVE WordCount(_)
\* len(content.split())
WordCount(lines) ==
    IF lines = <<>> THEN 0 ELSE Words(Head(lines)) + WordCount(Tail(lines))

\* min(count, 10)
Capped(count) == IF count < 10 THEN count ELSE 10

\* the body of the loop of _parse_topic_files for one file
ParseTopicFile(file_path, lines) ==
    [file_path |-> file_path,
     title |-> TitleFromContent(file_path.parts[4], lines),
     insights_count |->
        Capped(IF \/ Count(lines, <<"#", "#", " ", "Key", " ", "Insights">>) > 0
                  \/ Count(lines, <<"#", "#", " ", "Insights">>) > 0
               THEN Count(lines, <<"-", " ">>) ELSE 0),
     quotes_count |->
        Capped(Count(lines, <<">", " ">>) + Count(lines, <<"-", " ", "\"">>)),
     size |-> WordCount(lines)]

\* _parse_topic_files without manifest: content[name] holds the lines of the
\* file of that name
ParseTopicFilesFromContent(topic_files, content) ==
    [k \in 1..Len(topic_files) |->
        ParseTopicFile(topic_files[k], content[topic_files[k].parts[4]])]

\* a topic file: its first lines, then maybe an insights heading, bullet
\* lines, quoted bullet lines and quotation lines
TopicFileLines(head, heading, bullets, quoted, quotes) ==
    head
    \o (IF heading THEN <<<<"#", "#", " ", "Key", " ", "Insights">>>> ELSE <<>>)
    \o [i \in 1..bullets |-> <<"-", " ", "w", " ", "w">>]
    \o [i \in 1..quoted |-> <<"-", " ", "\"", "w", "\"">>]
    \o [i \in 1..quotes |-> <<">", " ", "w">>]

FileHeads ==
    {<<>>,
     <<<<"#", "#", " ", "TOPIC", " ", "1", ":", " ", "a">>>>,
     <<<<"#", " ", "h">>, <<"p", " ", "p">>>>}

\* body: <<insights heading, bullet lines, quoted bullet lines, quotation
\* lines>>
FileContents ==
    {TopicFileLines(head, body[1], body[2], body[3], body[4]) :
        head \in FileHeads,
        body \in {<<FALSE, 3, 0, 0>>, <<TRUE, 3, 0, 0>>, <<TRUE, 11, 0, 0>>,
                  <<FALSE, 0, 11, 0>>, <<FALSE, 0, 1, 11>>, <<TRUE, 3, 3, 3>>}}

ParseEntries ==
    {[file |-> Some(FilePath("gen", FileName("topic", 1))),
      title |-> title,
      key_insights |-> [i \in 1..data[1] |-> "insight"],
      notable_quotes |-> [i \in 1..data[2] |-> "quote"],
      word_count |-> data[3]] :
        title \in {None, Some(<<"a">>), Some(<<"h">>)},
        data \in {<<3, 0, 0>>, <<11, 3, 100>>, <<3, 11, 100>>}}
    \cup {[file |-> Some(FilePath("gen", FileName("topic", 2))),
           title |-> title,
           key_insights |-> [i \in 1..11 |-> "insight"],
           notable_quotes |-> <<>>,
           word_count |-> 7] :
            title \in {None, Some(<<"h">>)}}

InitParse ==
    /\ clock = 1
    /\ sessions = NoDisk.sessions
    /\ indexFile = NoDisk.indexFile
    /\ topicsDir = NoDisk.topicsDir
    /\ result \in
         {[op |-> "parse_args", names |-> names, content |-> content,
           manifest |-> [kind |-> "json", topics |-> topics],
           by_manifest |-> None, by_content |-> None] :
             names \in {<<FileName("topic", 1)>>,
                        <<FileName("topic", 1), FileName("topic", 2)>>},
             content \in [{FileName("topic", 1)} -> FileContents]
                             \X [{FileName("topic", 2)} ->
                                    {TopicFileLines(<<<<"#", " ", "h">>>>,
                                                    FALSE, 0, 0, 0),
                                     TopicFileLines(<<>>, TRUE, 11, 0, 2)}],
             topics \in UNION {[1..k -> ParseEntries] : k \in 0..MaxTopics}}

\* the session's topic files, as stage 1 returns them
ParsedFiles(names) ==
    LET self == NewOrchestrator("a.yaml", clock)
    IN  [k \in 1..Len(names) |-> DestPath(self, names[k])]

\* _parse_topic_files with self.manifest set by the manifest strategy
ParseWithManifest ==
    /\ result.op = "parse_args"
    /\ ~result.by_manifest.some
    /\ result' = [result EXCEPT !.by_manifest =
                     Some(ParseTopicsFromManifest(result.manifest,
                                                  ParsedFiles(result.names)))]
    /\ UNCHANGED <<clock, sessions, indexFile, topicsDir>>

\* _parse_topic_files without manifest, after file discovery
ParseFromContent ==
    /\ result.op = "parse_args"
    /\ ~result.by_content.some
    /\ result' = [result EXCEPT !.by_content =
                     Some(ParseTopicFilesFromContent(
                              ParsedFiles(result.names),
                              result.content[1] @@ result.content[2]))]
    /\ UNCHANGED <<clock, sessions, indexFile, topicsDir>>

NextParse == ParseWithManifest \/ ParseFromContent

SpecParse == InitParse /\ [][NextParse]_vars

(* ------------------------------ claims --------------------------------- *)

StageRank(stage) ==
    CASE stage = "ideas_generated" -> 1
      [] stage = "reviewed" -> 2
      [] stage = "completed" -> 3

PendingReviews(idx) == IF idx.exists THEN idx.pending_reviews ELSE <<>>

AwaitingGeneration(idx) == IF idx.exists THEN idx.reviewed_awaiting_generation ELSE <<>>

InPending(idx, s) == \E i \in DOMAIN PendingReviews(idx) : PendingReviews(idx)[i].session_id = s

InAwaiting(idx, s) ==
    \E i \in DOMAIN AwaitingGeneration(idx) : AwaitingGeneration(idx)[i].session_id = s

\* the step just taken was the entry point op, for a session that had a record
\* at the given stage when it started
StepOn(op, stages) ==
    /\ result'.op = op
    /\ result'.sid \in DOMAIN sessions
    /\ sessions[result'.sid].stage \in stages

\* C1: the stored stage of a session changes only along ideas_generated ->
\* reviewed -> completed: a record starts at ideas_generated, no write replaces
\* a stored stage by an earlier one and no stage is skipped.
C1_StageOnlyMovesForward ==
    [][\A s \in DOMAIN sessions' :
          IF s \in DOMAIN sessions
          THEN \/ sessions'[s].stage = sessions[s].stage
               \/ StageRank(sessions'[s].stage) = StageRank(sessions[s].stage) + 1
          ELSE sessions'[s].stage = "ideas_generated"]_vars

\* C2: run_generate_documents on a session stored at ideas_generated returns 1,
\* invokes the document generator zero times and leaves the session records
\* and the pending index as they were.
C2_GenerateDocsBeforeReviewFails ==
    [][StepOn("generate_docs", {"ideas_generated"})
          => /\ result'.ret = 1
             /\ result'.calls = 0
             /\ sessions' = sessions
             /\ indexFile' = indexFile]_vars

C2_Witness ==
    /\ result.op = "generate_docs"
    /\ result.sid \in DOMAIN sessions
    /\ sessions[result.sid].stage = "ideas_generated"
    /\ result.ret = 1

C4_ReviewNotRepeated ==
    [][StepOn("review", {"reviewed", "completed"})
          => /\ result'.ret = 0
             /\ ~result'.shown
             /\ sessions' = sessions
             /\ indexFile' = indexFile]_vars

C4_Witness ==
    /\ result.op = "review"
    /\ result.sid \in DOMAIN sessions
    /\ sessions[result.sid].stage \in {"reviewed", "completed"}
    /\ sessions[result.sid].selected_topics.some
    /\ result.ret = 0
    /\ ~result.shown

\* C5: no session id is in both pending_reviews and
\* reviewed_awaiting_generation; and once a review has moved a session, its id
\* is in reviewed_awaiting_generation and not in pending_reviews.
C5_ListsDisjoint ==
    /\ \A s \in SessionIds : ~(InPending(indexFile, s) /\ InAwaiting(indexFile, s))
    /\ (result.op = "review" /\ result.selected # <<>>)
          => /\ InAwaiting(indexFile, result.sid)
             /\ ~InPending(indexFile, result.sid)

\* C6: every session with a stored record is listed in pending_reviews exactly
\* when its stage is ideas_generated and in reviewed_awaiting_generation
\* exactly when its stage is reviewed (so in neither list when completed).
C6_IndexAgreesWithStage ==
    \A s \in DOMAIN sessions :
        /\ InPending(indexFile, s) <=> sessions[s].stage = "ideas_generated"
        /\ InAwaiting(indexFile, s) <=> sessions[s].stage = "reviewed"

C8_FailedIdeasWriteNothing ==
    [][result'.op = "generate_ideas"
          => /\ result'.exit = "nonzero"
                    => (~result'.raised /\ result'.stage1 = <<>>)
             /\ result'.stage1 = <<>>
                    => /\ result'.ret = 1
                       /\ sessions' = sessions
                       /\ indexFile' = indexFile]_vars

C8_Witness ==
    /\ result.op = "generate_ideas"
    /\ result.exit = "nonzero"
    /\ result.stage1 = <<>>
    /\ result.ret = 1
    /\ result.sid \notin DOMAIN sessions
    /\ ~indexFile.exists

\* C9: run_review_session on a session at ideas_generated with a non-empty
\* selection stores stage reviewed with selected_topics equal to the selection
\* (title and file reference of each selected topic, in the order selected),
\* every selected file reference being that of one of the session's topics;
\* the session's entries leave pending_reviews and one entry with
\* selected_count = the number selected is appended to
\* reviewed_awaiting_generation.
C9_ReviewPersistsSelection ==
    [][(result'.op = "review" /\ result'.selected # <<>>)
          => LET sid == result'.sid
                 chosen == result'.selected
                 stored == sessions'[sid].selected_topics
                 before == AwaitingGeneration(indexFile)
                 after == AwaitingGeneration(indexFile')
             IN  /\ sessions[sid].stage = "ideas_generated"
                 /\ result'.ret = 0
                 /\ sessions'[sid].stage = "reviewed"
                 /\ sessions'[sid].topics = sessions[sid].topics
                 /\ stored.some
                 /\ Len(stored.val) = Len(chosen)
                 /\ \A k \in DOMAIN chosen :
                        /\ stored.val[k].title = chosen[k].title
                        /\ PathOf(stored.val[k].file_path) = chosen[k].file_path
                        /\ \E i \in DOMAIN sessions'[sid].topics :
                               sessions'[sid].topics[i].file_path
                                   = stored.val[k].file_path
                 /\ InPending(indexFile, sid)
                 /\ PendingReviews(indexFile')
                        = SelectSeq(PendingReviews(indexFile),
                                    LAMBDA e : e.session_id # sid)
                 /\ Len(after) = Len(before) + 1
                 /\ SubSeq(after, 1, Len(before)) = before
                 /\ after[Len(after)].session_id = sid
                 /\ after[Len(after)].selected_count = Len(chosen)]_vars

C9_Witness ==
    /\ result.op = "review"
    /\ Len(result.selected) = 1
    /\ Len(sessions[result.sid].topics) = MaxTopics
    /\ sessions[result.sid].stage = "reviewed"
    /\ InAwaiting(indexFile, result.sid)
    /\ \E s \in DOMAIN sessions : s # result.sid /\ InPending(indexFile, s)

\* C10: run_review_session on a session at ideas_generated with an empty
\* selection returns 0 and changes nothing: the session records (stage and
\* updated_at included) and the pending index are as before, and the session is
\* still reviewable.
C10_EmptySelectionChangesNothing ==
    [][(result'.op = "review" /\ result'.shown /\ result'.selected = <<>>)
          => /\ sessions[result'.sid].stage = "ideas_generated"
             /\ result'.ret = 0
             /\ sessions' = sessions
             /\ indexFile' = indexFile
             /\ sessions'[result'.sid].stage = "ideas_generated"
             /\ InPending(indexFile', result'.sid)]_vars

C10_Witness ==
    /\ result.op = "review"
    /\ result.shown
    /\ result.selected = <<>>
    /\ result.ret = 0
    /\ sessions[result.sid].stage = "ideas_generated"
    /\ sessions[result.sid].updated_at < clock

\* C11: with retry_on_failure on, run_generate_documents on a session stored
\* at reviewed returns 0 whatever each invocation of the document generator
\* did (exit 0, non-zero exit, timeout): the record is stored at completed with
\* one entry of generated_documents per selected topic, its topics and
\* selected_topics as they were, and the session has no entry left in
\* reviewed_awaiting_generation; pending_reviews is not touched.
C11_GenerateDocsAlwaysCompletes ==
    [][(/\ StepOn("generate_docs", {"reviewed"})
        /\ sessions[result'.sid].config_snapshot.retry_on_failure
        /\ ~result'.interrupted)
          => LET sid == result'.sid
                 n == Len(sessions[sid].selected_topics.val)
             IN  /\ result'.ret = 0
                 /\ result'.calls = n
                 /\ sessions'[sid].stage = "completed"
                 /\ Len(sessions'[sid].generated_documents) = n
                 /\ sessions'[sid].selected_topics = sessions[sid].selected_topics
                 /\ sessions'[sid].topics = sessions[sid].topics
                 /\ \A s \in DOMAIN sessions : s # sid => sessions'[s] = sessions[s]
                 /\ ~InAwaiting(indexFile', sid)
                 /\ InAwaiting(indexFile, sid)
                 /\ PendingReviews(indexFile') = PendingReviews(indexFile)]_vars

C11_Witness ==
    /\ result.op = "generate_docs"
    /\ result.ret = 0
    /\ result.outs = <<"nonzero", "timeout">>
    /\ sessions[result.sid].stage = "completed"
    /\ Len(sessions[result.sid].generated_documents) = 2
    /\ \E s \in SessionIds : InAwaiting(indexFile, s)

\* C12: with retry_on_failure on, _run_stage2 over n selected topics does not
\* raise and returns n Document Results, the i-th carrying the title of the
\* i-th selected topic, with status success when the i-th invocation exited 0
\* and status failed otherwise.
C12_OneResultPerTopic ==
    (result.op = "run_stage2" /\ result.cfg.retry_on_failure)
        => LET documents == result.ret.documents
           IN  /\ ~result.ret.raised
               /\ result.ret.calls = Len(result.selected)
               /\ Len(documents) = Len(result.selected)
               /\ \A i \in DOMAIN documents :
                      /\ documents[i].topic = result.selected[i].title
                      /\ documents[i].status \in {"success", "failed"}
                      /\ documents[i].status = "success" <=> result.outs[i] = "ok"

C12_Witness ==
    /\ result.op = "run_stage2"
    /\ result.cfg.retry_on_failure
    /\ result.outs = <<"ok", "timeout", "ok">>
    /\ Len(result.ret.documents) = 3
    /\ Cardinality({i \in 1..3 : result.ret.documents[i].status = "failed"}) = 1

\* C13: with retry_on_failure off, the first non-zero exit of the document
\* generator raises: it is the last invocation made, run_generate_documents
\* returns 1, and the session records and the pending index are as before, so
\* the session is still at reviewed with no generated_documents and still
\* listed in reviewed_awaiting_generation.
C13_FirstFailureAbortsBatch ==
    [][(/\ StepOn("generate_docs", {"reviewed"})
        /\ ~sessions[result'.sid].config_snapshot.retry_on_failure
        /\ \E i \in DOMAIN result'.outs : result'.outs[i] = "nonzero")
          => LET sid == result'.sid
                 made == result'.outs
             IN  /\ made[Len(made)] = "nonzero"
                 /\ \A i \in 1..(Len(made) - 1) : made[i] # "nonzero"
                 /\ result'.calls = Len(made)
                 /\ result'.ret = 1
                 /\ sessions' = sessions
                 /\ indexFile' = indexFile
                 /\ sessions'[sid].stage = "reviewed"
                 /\ sessions'[sid].generated_documents = <<>>
                 /\ InAwaiting(indexFile', sid)]_vars

C13_Witness ==
    /\ result.op = "generate_docs"
    /\ result.ret = 1
    /\ result.outs = <<"nonzero">>
    /\ result.calls = 1
    /\ sessions[result.sid].stage = "reviewed"
    /\ ~sessions[result.sid].config_snapshot.retry_on_failure
    /\ Len(sessions[result.sid].selected_topics.val) = MaxTopics
    /\ InAwaiting(indexFile, result.sid)

\* C14: a timeout of the document generator never raises, whatever
\* retry_on_failure says: the invocation is recorded as a Document Result with
\* status failed whose error gives the timeout in seconds (not the stderr text
\* of a non-zero exit), the next selected topic is invoked, and a batch without
\* a non-zero exit runs to its end.
C14_TimeoutIsRecordedNotRaised ==
    result.op = "run_stage2"
        => LET r == result.ret
               n == Len(result.selected)
           IN  /\ \A i \in 1..r.calls :
                      result.outs[i] = "timeout"
                          => /\ i <= Len(r.documents)
                             /\ r.documents[i].topic = result.selected[i].title
                             /\ r.documents[i].status = "failed"
                             /\ r.documents[i].error
                                    = <<"Timeout after", result.cfg.stage2_timeout, "seconds">>
                             /\ r.documents[i].error
                                    # DocFailed(result.selected[i]).error
                             /\ i < n => r.calls > i
               /\ r.raised => result.outs[r.calls] = "nonzero"
               /\ (\A i \in 1..n : result.outs[i] # "nonzero")
                      => (~r.raised /\ r.calls = n /\ Len(r.documents) = n)

C14_Witness ==
    /\ result.op = "run_stage2"
    /\ ~result.cfg.retry_on_failure
    /\ result.outs = <<"timeout", "ok", "timeout">>
    /\ ~result.ret.raised
    /\ Len(result.ret.documents) = 3
    /\ result.ret.documents[3].status = "failed"

\* C15: generate_all_pending_documents, when no interrupt ends it, processes
\* the session of every entry reviewed_awaiting_generation held at its start,
\* once per entry and in list order, whatever happened to the sessions before;
\* success_count + failed_count is the number of entries, and it returns 0
\* when failed_count is 0 and 1 otherwise.
C15_GenerateAllProcessesEveryEntry ==
    [][(result'.op = "generate_all_pending" /\ ~result'.interrupted)
          => LET awaiting == AwaitingGeneration(indexFile)
             IN  /\ result'.processed
                        = [i \in 1..Len(awaiting) |-> awaiting[i].session_id]
                 /\ result'.success_count + result'.failed_count = Len(awaiting)
                 /\ result'.ret \in {0, 1}
                 /\ result'.ret = 0 <=> result'.failed_count = 0]_vars

C15_Witness ==
    /\ result.op = "generate_all_pending"
    /\ ~result.interrupted
    /\ Len(result.processed) = 2
    /\ result.processed[1] # result.processed[2]
    /\ sessions[result.processed[1]].stage = "reviewed"
    /\ sessions[result.processed[2]].stage = "completed"
    /\ result.failed_count = 1
    /\ result.success_count = 1
    /\ result.ret = 1

\* the session a process was working on when it ended
SessionAtEnd(r) ==
    IF r.op = "generate_all_pending" THEN r.processed[Len(r.processed)] ELSE r.sid

\* C16: when an interrupt arrives while the idea generator or the document
\* generator runs, the operation writes no session record and no index entry
\* for its session: run_generate_ideas and run_generate_documents leave the
\* session records and the pending index as they were, and the session an
\* interrupted generation (single or within generate-all-pending) was working
\* on is still stored at reviewed and still listed in
\* reviewed_awaiting_generation, so the generation can be issued again.
C16_InterruptPersistsNothing ==
    [][(\/ result'.interrupted
        \/ result'.exit = Interrupt
        \/ \E i \in DOMAIN result'.outs : result'.outs[i] = Interrupt)
          => LET sid == SessionAtEnd(result')
             IN  /\ result'.op \in {"generate_ideas", "generate_docs"}
                        => (sessions' = sessions /\ indexFile' = indexFile)
                 /\ result'.op \in {"generate_docs", "generate_all_pending"}
                        => /\ sessions'[sid] = sessions[sid]
                           /\ sessions'[sid].stage = "reviewed"
                           /\ InAwaiting(indexFile', sid)
                           /\ PendingReviews(indexFile') = PendingReviews(indexFile)
                 /\ result'.ret # 0]_vars

C16_Witness ==
    /\ result.op = "generate_docs"
    /\ result.interrupted
    /\ result.outs = <<"ok", Interrupt>>
    /\ sessions[result.sid].stage = "reviewed"
    /\ sessions[result.sid].generated_documents = <<>>
    /\ InAwaiting(indexFile, result.sid)

\* the step just taken saved the record of session s
Saves(s) ==
    \/ /\ result'.sid = s
       /\ \/ result'.op = "generate_ideas" /\ result'.ret = 0
          \/ result'.op = "review" /\ result'.selected # <<>>
          \/ result'.op = "generate_docs" /\ result'.ret = 0
    \/ /\ result'.op = "generate_all_pending"
       /\ \E i \in DOMAIN result'.processed : result'.processed[i] = s
       /\ s \in DOMAIN sessions
       /\ sessions[s].stage = "reviewed"
       /\ sessions'[s].stage = "completed"

\* C17: the record loaded for a session id after a save is the record that
\* save wrote (its id, the stage, topics and selection handed over, every file
\* reference a string that gives back the path), with updated_at the time of
\* that save; created_at is the time of the first save of the id and no later
\* save changes it; a record that was not saved loads as before.
C17_SaveLoadRoundTrip ==
    [][\A s \in DOMAIN sessions' :
          LET state == LoadSessionState(sessions', s)
          IN  /\ state.session_id = s
              /\ state.created_at
                     = IF s \in DOMAIN sessions THEN sessions[s].created_at ELSE clock
              /\ state.created_at <= state.updated_at
              /\ ~Saves(s) => (s \in DOMAIN sessions /\ state = sessions[s])
              /\ Saves(s) => state.updated_at = clock
              /\ (Saves(s) /\ result'.op = "generate_ideas")
                    => /\ state.stage = "ideas_generated"
                       /\ state.topics = TopicsToJson(ParseTopicFiles(result'.stage1))
                       /\ \A i \in DOMAIN state.topics :
                              PathOf(state.topics[i].file_path) = result'.stage1[i]
                       /\ state.selected_topics = None
                       /\ state.generated_documents = <<>>
              /\ (Saves(s) /\ result'.op = "review")
                    => /\ state.stage = "reviewed"
                       /\ state.topics = sessions[s].topics
                       /\ state.selected_topics = Some(TopicsToJson(result'.selected))
                       /\ state.generated_documents = <<>>
              /\ (Saves(s) /\ result'.op \in {"generate_docs", "generate_all_pending"})
                    => /\ state.stage = "completed"
                       /\ state.topics = sessions[s].topics
                       /\ state.selected_topics = sessions[s].selected_topics]_vars

C17_Witness ==
    /\ result.op = "generate_docs"
    /\ result.ret = 0
    /\ LoadSessionState(sessions, result.sid).stage = "completed"
    /\ LoadSessionState(sessions, result.sid).created_at < clock
    /\ LoadSessionState(sessions, result.sid).updated_at = clock

\* C18: run_review_session, run_generate_documents and
\* generate_all_pending_documents never change the config_snapshot or the
\* topics of a stored record: after them both fields of every record are what
\* they were, whichever configuration the session was started with.
C18_SnapshotAndTopicsAreKept ==
    [][result'.op \in {"review", "generate_docs", "generate_all_pending"}
          => \A s \in DOMAIN sessions :
                /\ s \in DOMAIN sessions'
                /\ sessions'[s].config_snapshot = sessions[s].config_snapshot
                /\ sessions'[s].topics = sessions[s].topics
                /\ sessions'[s].topics # <<>>]_vars

C18_Witness ==
    /\ result.op = "generate_docs"
    /\ result.ret = 0
    /\ sessions[result.sid].stage = "completed"
    /\ sessions[result.sid].config_file = Some("a.yaml")
    /\ sessions[result.sid].config_snapshot = LoadConfig("b.yaml")
    /\ sessions[result.sid].config_snapshot # LoadConfig("a.yaml")
    /\ Len(sessions[result.sid].topics) = MaxTopics

\* C19: in every stored record selected_topics is set and non-empty exactly
\* when the stage is reviewed or completed, it is not set at ideas_generated,
\* and generated_documents is non-empty only at completed.
C19_FieldsFollowStage ==
    \A s \in DOMAIN sessions :
        LET state == sessions[s]
        IN  /\ (state.selected_topics.some /\ state.selected_topics.val # <<>>)
                    <=> state.stage \in {"reviewed", "completed"}
            /\ state.stage = "ideas_generated" => state.selected_topics = None
            /\ state.generated_documents # <<>> => state.stage = "completed"

C19_Witness ==
    \E s, t \in DOMAIN sessions :
        /\ sessions[s].stage = "ideas_generated"
        /\ sessions[s].selected_topics = None
        /\ sessions[t].stage = "completed"
        /\ sessions[t].selected_topics.some
        /\ sessions[t].generated_documents # <<>>

\* the entries of a list that belong to other sessions
OtherEntries(l, session_id) == SelectSeq(l, LAMBDA e : e.session_id # session_id)

\* C20: _remove_from_awaiting_generation called again with the same session
\* id leaves the index file exactly as the first call left it; a call creates
\* no index file, changes nothing in pending_reviews and keeps the entries of
\* the other session ids in reviewed_awaiting_generation, in their order.
C20_RemoveIsIdempotent ==
    [][result'.op = "remove"
          => LET sid == result'.sid
             IN  /\ RemoveFromAwaitingGeneration(indexFile', sid) = indexFile'
                 /\ (result.op = "remove" /\ result.sid = sid)
                        => indexFile' = indexFile
                 /\ indexFile'.exists = indexFile.exists
                 /\ PendingReviews(indexFile') = PendingReviews(indexFile)
                 /\ OtherEntries(AwaitingGeneration(indexFile'), sid)
                        = OtherEntries(AwaitingGeneration(indexFile), sid)]_vars

C20_Witness ==
    /\ result.op = "remove"
    /\ InAwaiting(result.before, result.sid)
    /\ InPending(indexFile, result.sid)
    /\ Len(AwaitingGeneration(result.before)) = MaxIndexLen
    /\ Len(AwaitingGeneration(indexFile)) = 1
    /\ ~InAwaiting(indexFile, result.sid)

\* the call the step just taken made
CallMade(r) == [op |-> r.op, sid |-> r.sid, n |-> r.n]

\* the entries of a list that belong to one session
EntriesOf(l, session_id) == SelectSeq(l, LAMBDA e : e.session_id = session_id)

\* C21: _add_to_pending_reviews and _move_to_awaiting_generation repeated
\* with the same session id leave the index file as the first call left it,
\* and after either call no list holds two entries of that session id.
C21_AddAndMoveAreIdempotent ==
    [][(/\ result'.op \in {"add", "move"}
        /\ result.op = result'.op
        /\ CallMade(result) = CallMade(result'))
          => /\ indexFile' = indexFile
             /\ Len(EntriesOf(PendingReviews(indexFile'), result'.sid)) <= 1
             /\ Len(EntriesOf(AwaitingGeneration(indexFile'), result'.sid)) <= 1]_vars

\* C22: an index mutation that finds no index file acts as on two empty
\* lists: the lists it leaves are those the same call leaves on an empty
\* index (for _move_to_awaiting_generation: the session in
\* reviewed_awaiting_generation, pending_reviews empty).
C22_MissingIndexIsTwoEmptyLists ==
    [][(result'.op \in {"add", "move", "remove"} /\ ~indexFile.exists)
          => LET onEmpty == ApplyIndexCall(CallMade(result'), EmptyIndex, clock)
             IN  /\ PendingReviews(indexFile') = onEmpty.pending_reviews
                 /\ AwaitingGeneration(indexFile')
                        = onEmpty.reviewed_awaiting_generation
                 /\ result'.op = "move"
                        => /\ InAwaiting(indexFile', result'.sid)
                           /\ PendingReviews(indexFile') = <<>>]_vars

\* run_generate_ideas, run_review_session and run_generate_documents issued
\* one after the other for a new session, each by the command line
StagedRun(sess, idx, dir, path, exit, kind, written, auto_confirm, sel, outs, now) ==
    LET r1 == RunGenerateIdeasOp(sess, idx, dir, path, exit, kind, written, now)
        r2 == CliReview(r1.sessions, r1.indexFile, r1.topicsDir, now,
                        auto_confirm, sel, now)
    IN  CliGenerateDocs(r2.sessions, r2.indexFile, r2.topicsDir, now, outs, now)

\* C23: a run() that goes through idea generation, selection and document
\* generation leaves the session records and the two lists of the pending
\* index that the three staged calls leave when issued in sequence with the
\* same inputs: the record of the session at completed, the session in neither
\* list.
C23_RunIsTheStagedComposition ==
    [][(result'.op = "run" /\ result'.ret = 0 /\ result'.calls > 0)
          => LET a == result'.args
                 staged == StagedRun(sessions, indexFile, topicsDir, a.path,
                                     result'.exit, a.kind, a.written,
                                     a.auto_confirm, a.sel, result'.outs, clock)
             IN  /\ staged.ret = 0
                 /\ sessions' = staged.sessions
                 /\ result'.sid \in DOMAIN sessions'
                 /\ sessions'[result'.sid].stage = "completed"
                 /\ PendingReviews(indexFile') = PendingReviews(staged.indexFile)
                 /\ AwaitingGeneration(indexFile')
                        = AwaitingGeneration(staged.indexFile)]_vars

\* both processes of the race have ended, both read the index before either
\* wrote, and both wrote
BothReadBeforeEitherWrote ==
    /\ \A p \in Procs : result.procs[p].pc = "done"
    /\ Len(result.log) = 4
    /\ result.log[1].step = "read" /\ result.log[2].step = "read"

\* C24: when two processes make one index mutation each, for different
\* sessions, and both read the index before either writes it, the index they
\* leave is the one the process that wrote last would have left alone: only
\* its mutation is reflected, the other one is lost.
C24_OnlyLastWriterIsReflected ==
    BothReadBeforeEitherWrote
        => indexFile = ApplyIndexCall(result.procs[result.log[4].proc].call,
                                      result.before, clock)

\* two sessions were added to an index that had neither, and one is there
C24_Witness ==
    /\ BothReadBeforeEitherWrote
    /\ \A p \in Procs : /\ result.procs[p].call.op = "add"
                         /\ ~InPending(result.before, result.procs[p].call.sid)
    /\ Cardinality({p \in Procs : InPending(indexFile, result.procs[p].call.sid)}) = 1

\* the stage a staged operation writes
StageWritten(op) ==
    CASE op = "generate_ideas" -> "ideas_generated"
      [] op = "review" -> "reviewed"
      [] op = "generate_docs" -> "completed"

\* C25: a staged operation checks the stage once, when it loads the record,
\* and writes the full record later from the copy it loaded: its save leaves
\* the record at the stage of the operation with the topics of the loaded
\* copy, and for a review without generated documents, whatever another
\* process has written to the record in between.  So a record at completed
\* can be replaced by one at reviewed with generated_documents empty.
C25_SaveWritesTheLoadedCopy ==
    [][\A p \in StepProcs :
         (result.procs[p].pc = "worked" /\ result'.procs[p].pc = "saved")
            => LET me == result.procs[p]
                   sid == me.self.val.session_id
               IN  /\ sessions'[sid].stage = StageWritten(me.op)
                   /\ me.op = "review" =>
                        /\ sessions'[sid].topics = me.state.val.topics
                        /\ sessions'[sid].generated_documents = <<>>
                   /\ me.op = "generate_docs" =>
                        /\ sessions'[sid].selected_topics = me.state.val.selected_topics
                        /\ Len(sessions'[sid].generated_documents) = me.calls]_vars

\* a document generation has ended with exit code 0 and the record is back at
\* reviewed, without generated documents
C25_Witness ==
    /\ 1 \in DOMAIN sessions
    /\ sessions[1].stage = "reviewed"
    /\ sessions[1].generated_documents = <<>>
    /\ \E p \in StepProcs : /\ result.procs[p].op = "generate_docs"
                             /\ result.procs[p].pc = "done"
                             /\ result.procs[p].ret = 0
                             /\ result.procs[p].calls > 0

\* the document generator has run twice for the same selected topics
C25_GeneratedTwice ==
    \E p, q \in StepProcs :
        /\ p # q
        /\ result.procs[p].op = "generate_docs" /\ result.procs[q].op = "generate_docs"
        /\ result.procs[p].calls > 0 /\ result.procs[q].calls > 0
        /\ result.procs[p].selected = result.procs[q].selected

\* C28: the record write and the index update of one transition are never
\* observed apart: when command lines have run one at a time and none is
\* running, also after one was interrupted between the two steps, no session
\* at reviewed is still in pending_reviews, none at completed is still in
\* reviewed_awaiting_generation, and every session at ideas_generated is in
\* pending_reviews.
C28_RecordAndIndexNeverApart ==
    (~result.overlap /\ \A p \in StepProcs : ~Active(result.procs[p]))
        => \A s \in DOMAIN sessions :
              /\ sessions[s].stage = "reviewed" => ~InPending(indexFile, s)
              /\ sessions[s].stage = "completed" => ~InAwaiting(indexFile, s)
              /\ sessions[s].stage = "ideas_generated" => InPending(indexFile, s)

\* C26: --review and --generate-docs for a session id that has no record fail
\* with exit code 1 and create nothing: the session records, the pending
\* index and the topic directories are as before, and no session directory
\* is made.
C26_MissingSessionFailsCleanly ==
    [][(result'.op \in {"review", "generate_docs"}
        /\ result'.sid \notin DOMAIN sessions)
          => /\ result'.ret = 1
             /\ UNCHANGED <<sessions, indexFile, topicsDir>>
             /\ result'.mkdirs = {}]_vars

\* a review was asked for a session that has no record, while another has one
C26_Witness ==
    /\ result.op = "review"
    /\ result.sid \notin DOMAIN sessions
    /\ sessions # <<>>
    /\ result.ret = 1

\* C27: session ids are unique, so a run_generate_ideas that succeeds works on
\* a session of its own: before it there is no record under its id, its
\* topic directory is empty and pending_reviews has no entry for the id; it
\* overwrites nothing of another run and adds no second entry.
C27_GenerateIdeasUsesAFreshSession ==
    [][(result'.op = "generate_ideas" /\ result'.ret = 0)
          => /\ result'.sid \notin DOMAIN sessions
             /\ topicsDir[result'.sid] = {}
             /\ ~InPending(indexFile, result'.sid)
             /\ Len(EntriesOf(PendingReviews(indexFile'), result'.sid)) = 1]_vars

\* C29: with failure tolerance on and every generator invocation ending,
\* generate_all_pending_documents goes through the whole list it read: every
\* listed session whose record is at reviewed is at completed afterwards and
\* no longer listed, so reviewed_awaiting_generation holds none of the
\* entries it started with.
C29_GenerateAllDrainsTheList ==
    [][result'.op = "generate_all_pending"
          => LET started == AwaitingGeneration(indexFile)
             IN  /\ Len(result'.processed) = Len(started)
                 /\ \A i \in DOMAIN started :
                      LET s == started[i].session_id
                      IN  /\ (s \in DOMAIN sessions /\ sessions[s].stage = "reviewed")
                                => /\ sessions'[s].stage = "completed"
                                   /\ ~InAwaiting(indexFile', s)
                          /\ ~InAwaiting(indexFile', s)]_vars

\* the directory of the idea generator, seen from the working directory
GeneratorDir(cwd, idea_generator_path) ==
    IF Head(idea_generator_path) = "/"
    THEN Parent(idea_generator_path)
    ELSE cwd \o Parent(idea_generator_path)

\* C30: however the idea-generation stage ends (exit 0, non-zero exit,
\* timeout, interrupt, or an exception while the topic files are resolved),
\* the working directory afterwards is the one from before the call, and the
\* idea generator was run in its own directory.
C30_WorkingDirectoryIsRestored ==
    result.op = "stage1"
        => /\ result.cwd = result.before
           /\ result.generator_cwd
                = GeneratorDir(result.before, result.idea_generator_path)

\* the stage ended by an exception, away from the directory it was started in
C30_Witness ==
    /\ result.op = "stage1"
    /\ result.raised
    /\ result.generator_cwd # result.before
    /\ result.cwd = result.before

\* C31: during every document-generator invocation of _run_stage2 the working
\* directory is the document generator's own directory, and after the call it
\* is the caller's directory again.
C31_DocGeneratorRunsInItsOwnDirectory ==
    result.op = "stage2_cwd"
        => /\ result.cwd = result.before
           /\ \A i \in DOMAIN result.generator_cwds :
                 result.generator_cwds[i]
                    = GeneratorDir(result.before, result.doc_generator_path)

\* the names of the files discovery has to find in a directory state
Discoverable(fs) ==
    IF \E f \in fs["gen"] : f.name.kind = "topic"
    THEN {f.name : f \in {g \in fs["gen"] : g.name.kind = "topic"}}
    ELSE {f.name : f \in {g \in fs["gen"] : g.name.kind = "analysis"}}

\* the names of a list of paths of the topics directory
NamesOf(topic_files) == {topic_files[i].parts[4] : i \in DOMAIN topic_files}

NoRepeats(seq) == \A i, j \in DOMAIN seq : i # j => seq[i] # seq[j]

\* C32: an error while the manifest is read or processed is not propagated:
\* the stage does not fail and returns what file discovery finds in the idea
\* generator's directory.
C32_ManifestErrorFallsBack ==
    (result.op = "resolve" /\ result.fell_back)
        => /\ ~result.raised
           /\ NamesOf(result.topic_files) = Discoverable(result.fallback_fs)
           /\ Len(result.topic_files) = Cardinality(Discoverable(result.fallback_fs))
           /\ \A f \in result.fs["topics"] :
                 f.name \in Discoverable(result.fallback_fs) => f.origin = "gen"

\* a manifest that was read failed at an entry, and discovery found files
C32_Witness ==
    /\ result.op = "resolve"
    /\ result.fell_back
    /\ result.given.kind = "json"
    /\ result.topic_files # <<>>

\* the files a manifest lists that are on disk before it is processed
ListedOnDisk(manifest, fs) ==
    {FileAt(fs, manifest.topics[i].file.val) :
        i \in {j \in DOMAIN manifest.topics :
                  /\ manifest.topics[j].file.some
                  /\ Exists(fs, manifest.topics[j].file.val)}}

\* the manifest was read and processed to its end
ManifestStrategyUsed ==
    /\ result.op = "resolve"
    /\ result.given.kind = "json"
    /\ ~result.fell_back

\* C33: under the manifest strategy every listed file that is on disk is in
\* the session's topics directory afterwards and no longer where it was, and
\* is once in the returned list; a listed file that is missing is skipped; the
\* returned list has one entry per listed file on disk, and no two entries
\* share a path.
C33_ManifestFilesMovedExactlyOnce ==
    ManifestStrategyUsed
        => LET listed == ListedOnDisk(result.given, result.before)
           IN  /\ ~result.raised
               /\ \A f \in listed :
                     /\ f \in result.fs["topics"]
                     /\ f \notin result.fs[f.origin]
                     /\ Cardinality({i \in DOMAIN result.topic_files :
                            result.topic_files[i].parts[4] = f.name}) = 1
               /\ Len(result.topic_files) = Cardinality(listed)
               /\ NoRepeats(result.topic_files)

\* the same for manifests whose listed files differ in their file names
C33_DistinctNamesMovedExactlyOnce ==
    (ManifestStrategyUsed
     /\ \A f, g \in ListedOnDisk(result.given, result.before) :
            f.name = g.name => f = g)
        => C33_ManifestFilesMovedExactlyOnce

\* the names of the files of a pattern in the idea generator's directory
Matching(fs, kind) == {n \in GeneratedNames : n.kind = kind /\ FileIn("gen", n) \in fs["gen"]}

\* C34: under the discovery strategy analysis_*.md is used only when no
\* topic_*.md is there; every matched file is moved to the session's topics
\* directory, none stays where it was, and the returned list consists of
\* exactly the moved files (two topic_*.md files give two topics).
C34_DiscoveryMovesTheMatchedFiles ==
    (result.op = "resolve" /\ result.given.kind = "none")
        => LET primary == Matching(result.before, "topic")
               matched == IF primary # {} THEN primary
                          ELSE Matching(result.before, "analysis")
           IN  /\ \A n \in matched :
                     /\ FileIn("gen", n) \in result.fs["topics"]
                     /\ FileIn("gen", n) \notin result.fs["gen"]
               /\ result.fs["gen"] = result.before["gen"]
                                        \ {FileIn("gen", n) : n \in matched}
               /\ {f.name : f \in result.fs["topics"]} = matched
               /\ NamesOf(result.topic_files) = matched
               /\ Len(result.topic_files) = Cardinality(matched)

\* files of both patterns were there, and the two topic_*.md files were taken
C34_Witness ==
    /\ result.op = "resolve"
    /\ result.given.kind = "none"
    /\ Matching(result.before, "analysis") # {}
    /\ Cardinality(Matching(result.before, "topic")) = 2
    /\ Len(result.topic_files) = 2
    /\ Matching(result.fs, "analysis") = Matching(result.before, "analysis")

\* every file the stage has put into the topics directory is in its list
RelocatedAreReturned ==
    \A f \in result.fs["topics"] \ result.before["topics"] :
        f.name \in NamesOf(result.topic_files)

\* after a fallback the topics carry what the files themselves yield
FallbackTopicsAreParsedFromFiles ==
    result.fell_back
        => /\ ~result.parse_raised
           /\ Len(result.topics) = Len(result.topic_files)
           /\ \A k \in DOMAIN result.topics :
                 result.topics[k].title
                    = ParseTopicFiles(result.topic_files)[k].title

\* C40: every file the idea-generation stage moves into the session's topics
\* directory is in the topic list it returns, also when the manifest strategy
\* fails after moving some files and falls back to discovery; and the topics
\* returned after such a fallback carry discovery-derived metadata, not the
\* manifest's.
C40_RelocatedFilesAreReturned ==
    result.op = "resolve"
        => RelocatedAreReturned /\ FallbackTopicsAreParsedFromFiles

\* C39: the entry run_generate_ideas adds to pending_reviews for a new session
\* has topic_count equal to the number of topics stored in the session's
\* record, whichever pattern the topic files were found under.
C39_TopicCountIsTheNumberOfTopics ==
    [][(/\ result'.op = "generate_ideas"
        /\ result'.ret = 0
        /\ result'.sid \notin DOMAIN sessions
        /\ topicsDir[result'.sid] = {})
          => LET added == PendingReviews(indexFile')[Len(PendingReviews(indexFile'))]
             IN  /\ added.session_id = result'.sid
                 /\ added.topic_count = Len(sessions'[result'.sid].topics)]_vars

\* the lines of a file that begin, blanks aside, with the topic-heading marker
TopicHeadings(lines) ==
    {i \in DOMAIN lines :
        \E k \in 0..Len(lines[i]) :
            /\ \A j \in 1..k : lines[i][j] = " "
            /\ Len(lines[i]) >= k + 4
            /\ SubSeq(lines[i], k + 1, k + 4) = <<"#", "#", " ", "TOPIC">>}

\* the lines of a file that begin with a heading marker
Headings(lines) == {i \in DOMAIN lines : lines[i] # <<>> /\ lines[i][1] = "#"}

Lowest(S) == CHOOSE i \in S : \A j \in S : i <= j

\* a line without its leading heading markers and surrounding blanks
Unmarked(line) ==
    LET k == CHOOSE k \in 0..Len(line) :
                /\ \A j \in 1..k : line[j] = "#"
                /\ k < Len(line) => line[k + 1] # "#"
    IN  Strip(SubSeq(line, k + 1, Len(line)))

\* C38: the title of a topic parsed from its file is chosen by strict
\* priority: the text after the first colon of the first topic-heading line
\* if the file has one (wherever it stands, also after a plain heading);
\* otherwise the first heading line without its marker characters; otherwise
\* the title-cased file name.
C38_TitlePriority ==
    result.op = "title"
        => LET lines == result.lines
               topic == TopicHeadings(lines)
               plain == Headings(lines)
           IN  /\ topic # {}
                    => LET line == lines[Lowest(topic)]
                       IN  (\E j \in DOMAIN line : line[j] = ":")
                              => result.title = Strip(AfterFirstColon(line))
               /\ (topic = {} /\ plain # {})
                    => result.title = Unmarked(lines[Lowest(plain)])
               /\ (topic = {} /\ plain = {})
                    => result.title = TitleOf(result.name)

\* a topic heading with a colon stood after a plain heading and gave the title
C38_Witness ==
    /\ result.op = "title"
    /\ Len(result.lines) = 2
    /\ Headings(result.lines) = {1, 2}
    /\ TopicHeadings(result.lines) = {2}
    /\ result.title = <<"b", ":", "c">>

\* the title the content of a file yields
ExpectedTitle(name, lines) ==
    IF TopicHeadings(lines) # {}
    THEN Strip(AfterFirstColon(lines[Lowest(TopicHeadings(lines))]))
    ELSE IF Headings(lines) # {}
    THEN Unmarked(lines[Lowest(Headings(lines))])
    ELSE TitleOf(name)

\* the manifest entries that name a file
EntriesNaming(name) ==
    {i \in DOMAIN result.manifest.topics :
        result.manifest.topics[i].file.val.name = name}

ContentOf(name) == (result.content[1] @@ result.content[2])[name]

\* the manifest lists every topic file, under the title its content yields
EquivalentInput ==
    \A k \in DOMAIN result.names :
        /\ EntriesNaming(result.names[k]) # {}
        /\ \A i \in EntriesNaming(result.names[k]) :
              result.manifest.topics[i].title
                 = Some(ExpectedTitle(result.names[k], ContentOf(result.names[k])))

TitledPaths(topics) ==
    {<<topics[k].title, topics[k].file_path>> : k \in DOMAIN topics}

\* C35: on equivalent input (the same topic files, the manifest giving each
\* the title its content yields) the manifest strategy and the discovery
\* strategy produce topics with the same set of (title, file_path) pairs.
C35_StrategiesAgreeOnTitlesAndPaths ==
    (/\ result.op = "parse_args"
     /\ result.by_manifest.some
     /\ result.by_content.some
     /\ EquivalentInput)
        => TitledPaths(result.by_manifest.val) = TitledPaths(result.by_content.val)

\* both strategies ran on two files with headings, and differ in the counts
C35_Witness ==
    /\ result.op = "parse_args"
    /\ result.by_manifest.some
    /\ result.by_content.some
    /\ EquivalentInput
    /\ Len(result.names) = 2
    /\ result.by_content.val[1].title = <<"a">>
    /\ result.by_content.val[2].title = <<"h">>
    /\ result.by_manifest.val[1].insights_count
          # result.by_content.val[1].insights_count

\* C36: every topic of either strategy has insights_count and quotes_count
\* of at most ten, also for manifests and files with more than ten insights
\* or quotes.
C36_CountsAreAtMostTen ==
    result.op = "parse_args"
        => \A made \in {result.by_manifest, result.by_content} :
              made.some
                 => \A k \in DOMAIN made.val :
                       /\ made.val[k].insights_count <= 10
                       /\ made.val[k].quotes_count <= 10

\* the same for the topics parsed from the files' content alone
C36_FileCountsAreAtMostTen ==
    (result.op = "parse_args" /\ result.by_content.some)
        => \A k \in DOMAIN result.by_content.val :
              /\ result.by_content.val[k].insights_count <= 10
              /\ result.by_content.val[k].quotes_count <= 10

\* C37: under the manifest strategy the topic of a file listed in the manifest
\* has the counts and the size of an entry of that file name: insights_count
\* is the length of key_insights, quotes_count the length of notable_quotes,
\* size is word_count, whatever the content of the file.
C37_ManifestCountsAreListLengths ==
    (result.op = "parse_args" /\ result.by_manifest.some)
        => \A k \in DOMAIN result.names :
              EntriesNaming(result.names[k]) # {}
                 => \E i \in EntriesNaming(result.names[k]) :
                       LET entry == result.manifest.topics[i]
                           topic == result.by_manifest.val[k]
                       IN  /\ topic.insights_count = Len(entry.key_insights)
                           /\ topic.quotes_count = Len(entry.notable_quotes)
                           /\ topic.size = entry.word_count

\* a topic took eleven insights from its entry while its file has three
\* bullet lines under an insights heading
C37_Witness ==
    /\ result.op = "parse_args"
    /\ result.by_manifest.some
    /\ result.by_content.some
    /\ EntriesNaming(result.names[1]) # {}
    /\ result.by_manifest.val[1].insights_count = 11
    /\ result.by_manifest.val[1].size = 100
    /\ result.by_content.val[1].insights_count = 3

====
